---- MODULE Spec2Model ----
(***************************************************************************)
(* Scroll-driven 3D tent viewer: the scroll orchestration (ScrollSections), *)
(* the clip scrubbing of SceneContent, the camera queue and rig, and the    *)
(* gzipped-asset loading hooks, modelled as state machines.                 *)
(*                                                                          *)
(* Fixed-point conventions: a progress or clip fraction in [0,1] is an      *)
(* integer in 0..One (hundredths); a clip time is the integer               *)
(* fraction * duration, i.e. seconds * One; camera durations are in         *)
(* milliseconds; coordinates are in millimetres.                            *)
(***************************************************************************)
EXTENDS Integers, Sequences, FiniteSets, TLC

VARIABLES
  \* ---- SceneContent (src/unnamed/part_004, src/src/App.js) ----
  clipNames,      \* Object.keys(actions): the clips of the loaded model, in order
  actions,        \* clip name -> AnimationAction fields
  scrubRef,       \* scrubRef.current
  sectionRef,     \* sectionRef.current
  animationStartedRef,          \* animationStartedRef.current (section 5)
  mattressAnimationStartedRef,  \* mattressAnimationStartedRef.current (section 3)
  \* ---- ScrollSections (ScrollSections.js, src/unnamed/part_006, App.js) ----
  variant,        \* which ScrollSections is mounted: "modular", "legacy" or "app"
  apiClipNames,   \* api.clipNames of useAnimationAPI
  apiGroup,       \* whether api.group is set
  effectPending,  \* a render was committed whose scroll effect has not run yet
  effectOn,       \* the scroll effect is bound (listeners wired)
  scrollY,        \* window.scrollY
  lastSection,    \* lastSection of the effect closure
  lastProgress,   \* lastProgress / lastS1..lastS6 of the effect closure
  tentHasBeenClosed,  \* tentHasBeenClosed of the effect closure (legacy)
  doorNameRef,    \* doorNameRef.current (legacy)
  appliedGeo1Ref, \* appliedGeo1Ref.current (legacy)
  geo1Styled,     \* geo1 material is in its highlighted style
  visible3in,     \* the "3in" object is visible
  weightDroppedRef,   \* weightDroppedRef.current (App.js)
  initTimers,     \* pending setTimeout(ensureInitialOpenState, 0) callbacks
  camQ,           \* state of the camera queue
  rafQueue,       \* requestAnimationFrame callbacks waiting for the next frame
  section7Runner, section8Runner, section8AnimRunner,  \* the timed runners
  \* ---- history of the current effect run ----
  scrollsSinceStart, \* onScroll calls by scroll/resize events since the effect started
  framedSinceStart,  \* SceneContent has rendered a frame since the effect started
  posedSinceStart,   \* a setCameraPose event was dispatched since the effect started
  dropsThisStay,     \* triggerWeightDrop events since section 0 was last inactive
  \* ---- useGzipGLTF with fallback (src/verify-deployment.sh) ----
  fbRuns,         \* the runs of the effect (loadGLTF), oldest first
  fbHook,         \* gltfData, error and loading of the hook
  \* ---- caching useGzipGLTF (src/src/hooks/useGzipGLTF.js) ----
  gltfCache,      \* the module-level cache entry of the url
  gcRuns,         \* the runs of the effect (loadGzipGLTF), oldest first
  gcFetches,      \* number of fetch(url) calls made so far
  \* ---- CameraRig (src/src/components/CameraRig.js); a camera queue ----
  rig,            \* controls, camera position, controls target, desired pose, tau
  rigQ,           \* state of a camera queue studied on its own
  rigRaf,         \* requestAnimationFrame callbacks of that queue
  rigFrames,      \* frames rendered by useFrame so far
  rigFlushed,     \* what the flush that just ran found pending
  rigQueued,      \* the queue() calls since the last flush or reset
  \* ---- animationsBridge (src/src/utils/animationsBridge.js) ----
  bridge,         \* the listeners Set and what each listener was called with
  \* ---- progressFor, called on its own ----
  measured,       \* the last call: element, viewport heights and result
  \* ---- the gzip detection of loadGzipGLTF, on its own ----
  decoded,        \* the last payload and the blob made of it
  \* ---- WeightLayer (src/src/components/WeightLayer.js) ----
  weight,         \* refs, state and rendered output of the component
  annot,          \* AnnotationSystem and AnnotationOverlays
  \* ---- observation of the last step ----
  op,             \* name of the handler that ran last
  emitted         \* window events dispatched by the handler that ran last

sceneVars == <<clipNames, actions, scrubRef, sectionRef, animationStartedRef,
               mattressAnimationStartedRef>>
orchVars == <<variant, apiClipNames, apiGroup, effectPending, effectOn,
              scrollY, lastSection, lastProgress, tentHasBeenClosed,
              doorNameRef, appliedGeo1Ref, geo1Styled, visible3in,
              weightDroppedRef, initTimers, camQ, rafQueue, section7Runner,
              section8Runner, section8AnimRunner>>
histVars == <<scrollsSinceStart, framedSinceStart, posedSinceStart,
              dropsThisStay>>
obsVars == <<op, emitted>>
fbVars == <<fbRuns, fbHook>>
gcVars == <<gltfCache, gcRuns, gcFetches>>
rigVars == <<rig, rigQ, rigRaf, rigFrames, rigFlushed, rigQueued>>
uiVars == <<bridge, measured, decoded, weight, annot>>
uiRestOfBridge == <<measured, decoded, weight, annot>>
uiRestOfMeasure == <<bridge, decoded, weight, annot>>
uiRestOfDecode == <<bridge, measured, weight, annot>>
uiRestOfWeight == <<bridge, measured, decoded, annot>>
uiRestOfAnnot == <<bridge, measured, decoded, weight>>
libVars == <<fbVars, gcVars, rigVars, uiVars>>

-----------------------------------------------------------------------------
(* Generic helpers *)

One == 100

Min2(a, b) == IF a < b THEN a ELSE b
Max2(a, b) == IF a > b THEN a ELSE b

\* THREE.MathUtils.clamp
Clamp(x, lo, hi) == Max2(lo, Min2(hi, x))

Range(s) == { s[i] : i \in DOMAIN s }

\* JS null / undefined for a clip name (falsy, like the empty string)
NoClip == ""

-----------------------------------------------------------------------------
(* Clip names.  The model file's clip list is data of the GLB asset; the    *)
(* lists below are the ones explored.                                       *)

ClipLists ==
  { <<"animation0", "TentOPENCLOSE", "Door", "BackWindow", "Side", "Mattress">>,
    <<"animation0", "FrontDoor", "Side">> }

AllClipNames == UNION { Range(l) : l \in ClipLists }

\* clip.duration in seconds (asset data)
ClipDuration(name) == IF name = "Side" THEN 3 ELSE 2

\* name.toLowerCase().includes(needle), tabulated for the names explored
LowerIncludes(name, needle) ==
  CASE name = "animation0"    -> needle \in {"animation0"}
    [] name = "TentOPENCLOSE" -> needle \in {"tentopenclose"}
    [] name = "Door"          -> needle \in {"door"}
    [] name = "FrontDoor"     -> needle \in {"frontdoor", "door", "front"}
    [] name = "BackWindow"    -> needle \in {"backwindow", "window", "back"}
    [] name = "Side"          -> needle \in {"side"}
    [] name = "Mattress"      -> needle \in {"mattress"}
    [] OTHER                  -> FALSE

\* requested.toLowerCase()
ToLower(name) ==
  CASE name = "animation0"    -> "animation0"
    [] name = "TentOPENCLOSE" -> "tentopenclose"
    [] name = "tentOpenClose" -> "tentopenclose"
    [] name = "TentOpenClose" -> "tentopenclose"
    [] name = "Door"          -> "door"
    [] name = "FrontDoor"     -> "frontdoor"
    [] name = "BackWindow"    -> "backwindow"
    [] name = "Side"          -> "side"
    [] name = "Mattress"      -> "mattress"
    [] OTHER                  -> name

\* Array.prototype.find over a sequence: first element satisfying P, else NoClip
FindFirst(seq, P(_)) ==
  LET idx == { i \in DOMAIN seq : P(seq[i]) }
  IN IF idx = {} THEN NoClip
     ELSE seq[CHOOSE i \in idx : \A j \in idx : i <= j]

-----------------------------------------------------------------------------
(* THREE.AnimationAction / AnimationMixer, as used by SceneContent          *)

\* a freshly created action (mixer.clipAction)
NewAction == [enabled |-> TRUE, weight |-> 1, paused |-> FALSE, time |-> 0,
              active |-> FALSE]

\* AnimationAction.reset(): paused = false, enabled = true, time = 0
AnimReset(a) == [a EXCEPT !.paused = FALSE, !.enabled = TRUE, !.time = 0]

\* AnimationAction.stop(): deactivate, then reset()
AnimStop(a) == AnimReset([a EXCEPT !.active = FALSE])

\* AnimationAction.play(): activate in the mixer
AnimPlay(a) == [a EXCEPT !.active = TRUE]

\* AnimationMixer.update(delta) for LoopOnce + clampWhenFinished actions:
\* an active, enabled, unpaused action advances and clamps (pausing) at its end
MixerUpdate(acts, delta) ==
  [n \in DOMAIN acts |->
     LET a == acts[n] IN
     IF a.active /\ a.enabled /\ ~a.paused /\ delta > 0
     THEN IF a.time + delta >= ClipDuration(n) * One
          THEN [a EXCEPT !.time = ClipDuration(n) * One, !.paused = TRUE]
          ELSE [a EXCEPT !.time = a.time + delta]
     ELSE a]

-----------------------------------------------------------------------------
(* SceneContent                                                             *)

\* a scrub entry { name, t }
Entry(n, t) == [name |-> n, t |-> t]

EmptyScrub == [entries |-> <<>>, exclusive |-> TRUE]

\* the refs the window listeners of SceneContent write
SceneRefs ==
  [scrub |-> scrubRef, section |-> sectionRef,
   animationStarted |-> animationStartedRef,
   mattressAnimationStarted |-> mattressAnimationStartedRef]

\* onScrub: scrubClips listener
onScrub(r, entries, exclusive) ==
  [r EXCEPT !.scrub = [entries |-> entries, exclusive |-> exclusive]]

\* onClear: clearScrub listener
onClear(r) == [r EXCEPT !.scrub = EmptyScrub]

\* onSectionChange: sectionChange listener
onSectionChange(r, section) ==
  [r EXCEPT
     !.section = section,
     !.mattressAnimationStarted =
        IF (section = 3 /\ r.section # 3) \/ (r.section = 3 /\ section # 3)
        THEN FALSE ELSE @,
     !.animationStarted =
        IF (section = 5 /\ r.section # 5) \/ (r.section = 5 /\ section # 5)
        THEN FALSE ELSE @]

\* window.dispatchEvent: the listeners of SceneContent run synchronously
SceneListen(r, ev) ==
  CASE ev.type = "scrubClips"    -> onScrub(r, ev.entries, ev.exclusive)
    [] ev.type = "clearScrub"    -> onClear(r)
    [] ev.type = "sectionChange" -> onSectionChange(r, ev.section)
    [] OTHER                     -> r

RECURSIVE SceneListenAll(_, _)
SceneListenAll(r, evs) ==
  IF evs = <<>> THEN r ELSE SceneListenAll(SceneListen(r, Head(evs)), Tail(evs))

SetSceneRefs(r) ==
  /\ scrubRef' = r.scrub
  /\ sectionRef' = r.section
  /\ animationStartedRef' = r.animationStarted
  /\ mattressAnimationStartedRef' = r.mattressAnimationStarted

\* "Disable all other actions first": enabled = false; weight = 0; stop()
DisableAndStopAll(acts) ==
  [n \in DOMAIN acts |-> AnimStop([acts[n] EXCEPT !.enabled = FALSE, !.weight = 0])]

\* reset(); enabled = true; weight = 1; paused = false; play()
StartOnce(a) ==
  AnimPlay([AnimReset(a) EXCEPT !.enabled = TRUE, !.weight = 1, !.paused = FALSE])

IsMattressName(name) ==
  \/ LowerIncludes(name, "mattress")
  \/ LowerIncludes(name, "matress")
  \/ LowerIncludes(name, "bed")

IsBackWindowName(name) ==
  \/ LowerIncludes(name, "backwindow")
  \/ LowerIncludes(name, "back_window")
  \/ LowerIncludes(name, "back-window")
  \/ ToLower(name) = "backwindow"
  \/ LowerIncludes(name, "window")

\* useFrame, section 3 branch: start the mattress clip once
Section3Start(acts) ==
  LET m == FindFirst(clipNames, IsMattressName) IN
  IF m # NoClip /\ m \in DOMAIN acts
  THEN [DisableAndStopAll(acts) EXCEPT ![m] = StartOnce(@)]
  ELSE acts

\* useFrame, section 5 branch: start Side and the back window clip once
Section5Start(acts) ==
  LET w  == FindFirst(clipNames, IsBackWindowName)
      a0 == DisableAndStopAll(acts)
      a1 == IF "Side" \in DOMAIN a0 THEN [a0 EXCEPT !["Side"] = StartOnce(@)] ELSE a0
  IN IF w # NoClip /\ w \in DOMAIN a1 THEN [a1 EXCEPT ![w] = StartOnce(@)] ELSE a1

\* exclusive scrub: every action enabled = false, weight = 0
DisableAll(acts) ==
  [n \in DOMAIN acts |-> [acts[n] EXCEPT !.enabled = FALSE, !.weight = 0]]

\* a variant of ScrubTime that does not clamp the fraction
ScrubTimeUnclamped(name, t) == t * ClipDuration(name)

\* the time an entry puts its action at: clamp(t, 0, 1) * clip.duration
ScrubTime(name, t) == Clamp(t, 0, One) * ClipDuration(name)

\* entries.forEach(...): enabled, weight 1, paused, play(), time
ScrubOne(a, name, t) ==
  AnimPlay([a EXCEPT !.enabled = TRUE, !.weight = 1, !.paused = TRUE,
                     !.time = ScrubTime(name, t)])

RECURSIVE ApplyEntries(_, _)
ApplyEntries(acts, entries) ==
  IF entries = <<>> THEN acts
  ELSE LET e == Head(entries) IN
       ApplyEntries(IF e.name \in DOMAIN acts
                    THEN [acts EXCEPT ![e.name] = ScrubOne(@, e.name, e.t)]
                    ELSE acts,
                    Tail(entries))

\* useFrame((_, delta) => ...)
SceneFrameActions(delta) ==
  IF sectionRef = 3
  THEN MixerUpdate(IF mattressAnimationStartedRef THEN actions
                   ELSE Section3Start(actions), delta)
  ELSE IF sectionRef = 5
  THEN MixerUpdate(IF animationStartedRef THEN actions
                   ELSE Section5Start(actions), delta)
  ELSE IF Len(scrubRef.entries) > 0
  THEN MixerUpdate(ApplyEntries(IF scrubRef.exclusive THEN DisableAll(actions)
                                ELSE actions, scrubRef.entries), 0)
  ELSE MixerUpdate(actions, 0)

SceneFrameStep(delta) ==
  /\ actions' = SceneFrameActions(delta)
  /\ mattressAnimationStartedRef' = (sectionRef = 3 \/ mattressAnimationStartedRef)
  /\ animationStartedRef' = (sectionRef = 5 \/ animationStartedRef)
  /\ UNCHANGED <<clipNames, scrubRef, sectionRef>>

-----------------------------------------------------------------------------
(* Camera poses and the de-jittered camera queue (createCameraQueue)        *)

\* JS null
Null == [null |-> TRUE]

Pose(px, py, pz, tx, ty, tz) ==
  [position |-> <<px, py, pz>>, target |-> <<tx, ty, tz>>]

\* squared distance between two points, in mm^2
Dist2(u, v) ==
  (u[1] - v[1]) * (u[1] - v[1]) + (u[2] - v[2]) * (u[2] - v[2])
    + (u[3] - v[3]) * (u[3] - v[3])

\* floor of the square root, by bisection
RECURSIVE IsqrtIn(_, _, _)
IsqrtIn(n, lo, hi) ==
  IF lo >= hi THEN lo
  ELSE LET mid == (lo + hi + 1) \div 2 IN
       IF mid * mid <= n THEN IsqrtIn(n, mid, hi) ELSE IsqrtIn(n, lo, mid - 1)

Isqrt(n) == IsqrtIn(n, 0, Min2(n, 40000))

\* poseDistance(a, b): position distance plus target distance, in mm
\* (each rounded down to a whole mm); Infinity for a missing pose is handled
\* by the callers
poseDistance(a, b) ==
  Isqrt(Dist2(a.position, b.position)) + Isqrt(Dist2(a.target, b.target))

\* sqrt(p2) + sqrt(t2) > eps, decided exactly on the squared distances
SumOfRootsExceeds(p2, t2, eps) ==
  \/ p2 > eps * eps
  \/ t2 > eps * eps
  \/ LET c == eps * eps + p2 - t2 IN
       \/ c < 0
       \/ 4 * eps * eps * p2 > c * c

\* CAM_EPS = 0.005, in mm
CAM_EPS == 5
\* CAM_MIN_DUR = 0.6 and CAM_MAX_DUR = 4.0, in ms
CAM_MIN_DUR == 600
CAM_MAX_DUR == 4000
\* CAM_DIST_TO_DUR = 1.2, in tenths (ms per mm)
CAM_DIST_TO_DUR == 12

\* delta > CAM_EPS
DeltaExceedsEps(a, b) ==
  SumOfRootsExceeds(Dist2(a.position, b.position), Dist2(a.target, b.target),
                    CAM_EPS)

\* THREE.MathUtils.clamp(delta * CAM_DIST_TO_DUR, CAM_MIN_DUR, CAM_MAX_DUR)
DurFromDelta(lastSent, pose) ==
  IF lastSent = Null THEN CAM_MAX_DUR
  ELSE Clamp((poseDistance(lastSent, pose) * CAM_DIST_TO_DUR) \div 10,
             CAM_MIN_DUR, CAM_MAX_DUR)

\* state of a camera queue right after createCameraQueue()
NewCameraQueue == [lastSent |-> Null, pending |-> Null, raf |-> FALSE]

\* A handler context is a record of what a handler may change as it runs:
\*   cam  the camera queue state      raf  the requestAnimationFrame callbacks
\*   ev   the window events dispatched so far, in order
\* (the orchestrators add their runners and scene-graph flags to it)

\* remove the first occurrence of a callback (cancelAnimationFrame)
RECURSIVE RemoveFirst(_, _)
RemoveFirst(seq, x) ==
  IF seq = <<>> THEN <<>>
  ELSE IF Head(seq) = x THEN Tail(seq)
  ELSE <<Head(seq)>> \o RemoveFirst(Tail(seq), x)

\* a variant of queue that requests a frame on every call
CamQueueAlwaysRequests(c, pose, baseDuration, immediate) ==
  [c EXCEPT
     !.cam = [@ EXCEPT !.pending = [pose |-> pose, baseDuration |-> baseDuration,
                                    immediate |-> immediate],
                       !.raf = TRUE],
     !.raf = Append(@, "flush")]

\* queue(pose, opts)
CamQueue(c, pose, baseDuration, immediate) ==
  [c EXCEPT
     !.cam = [@ EXCEPT !.pending = [pose |-> pose, baseDuration |-> baseDuration,
                                    immediate |-> immediate],
                       !.raf = TRUE],
     !.raf = IF c.cam.raf THEN @ ELSE Append(@, "flush")]

\* reset()
CamReset(c) ==
  [c EXCEPT !.cam = NewCameraQueue,
            !.raf = IF c.cam.raf THEN RemoveFirst(@, "flush") ELSE @]

\* a variant of FlushSends that dispatches every pending pose
AlwaysSends(q) == TRUE

\* whether flush dispatches the pending pose
FlushSends(q) == q.lastSent = Null \/ DeltaExceedsEps(q.lastSent, q.pending.pose)

\* flush(): the requestAnimationFrame callback of the queue
CamFlush(c) ==
  LET q == c.cam IN
  IF q.pending = Null THEN [c EXCEPT !.cam.raf = FALSE]
  ELSE IF FlushSends(q)
  THEN LET finalDuration == Max2(q.pending.baseDuration,
                                 DurFromDelta(q.lastSent, q.pending.pose))
       IN [c EXCEPT
             !.cam = [lastSent |-> [position |-> q.pending.pose.position,
                                    target |-> q.pending.pose.target,
                                    duration |-> finalDuration],
                      pending |-> Null, raf |-> FALSE],
             !.ev = Append(@, [type |-> "setCameraPose",
                               position |-> q.pending.pose.position,
                               target |-> q.pending.pose.target,
                               duration |-> IF q.pending.immediate THEN 0
                                            ELSE finalDuration,
                               immediate |-> q.pending.immediate])]
  ELSE [c EXCEPT !.cam = [q EXCEPT !.pending = Null, !.raf = FALSE]]

-----------------------------------------------------------------------------
(* The page: stacked <section> elements and their scroll progress           *)

\* window.innerHeight, the unit of the min-h-[..vh] classes (100 = 1vh each)
InnerHeight == 100

\* height of the leading <section className="px-6 py-16 ..."> (padding only)
HeaderHeight == 13

Variants == {"modular", "legacy", "app"}

\* ids of the sections with a ref, top to bottom
SectionIds(v) ==
  CASE v = "modular" -> <<1, 2, 3, 4, 5, 6, 7, 8>>
    [] v = "legacy"  -> <<1, 2, 3, 4, 5, 6>>
    [] OTHER         -> <<0, 1, 2, 3, 4, 5, 6>>

\* min-h-[..vh] of a section
SectionHeight(v, id) ==
  CASE v = "modular" /\ id = 7 -> 350
    [] v = "legacy" /\ id = 5  -> 250
    [] v = "app" /\ id = 5     -> 160
    [] OTHER                   -> 120

\* document offset of the top of a section
RECURSIVE HeightBefore(_, _, _)
HeightBefore(v, ids, id) ==
  IF ids = <<>> \/ Head(ids) = id THEN 0
  ELSE SectionHeight(v, Head(ids)) + HeightBefore(v, Tail(ids), id)

SectionTop(v, id) == HeaderHeight + HeightBefore(v, SectionIds(v), id)

\* an element that is not mounted (ref.current is null), and the rectangle
\* getBoundingClientRect() returns for a mounted one (bottom = top + height)
NoElement == [missing |-> TRUE]
Rect(top, height) == [missing |-> FALSE, top |-> top, height |-> height]

\* a variant of progressForEl without the offscreen test
progressForNoOffscreen(el, innerHeight, clientHeight) ==
  IF el.missing THEN 0
  ELSE LET h == IF el.height = 0 THEN 1 ELSE el.height
       IN Max2(0, Min2(One, ((0 - el.top) * One) \div h))

\* progressFor(el), with window.innerHeight and
\* document.documentElement.clientHeight as it finds them
progressForEl(el, innerHeight, clientHeight) ==
  IF el.missing THEN 0
  ELSE LET vh == IF innerHeight # 0 THEN innerHeight ELSE clientHeight
           h == IF el.height = 0 THEN 1 ELSE el.height
       IN IF el.top + el.height <= 0 \/ el.top >= vh THEN 0
          ELSE Max2(0, Min2(One, ((0 - el.top) * One) \div h))

\* progressFor(el) of a mounted section of the page
progressFor(top, height) ==
  progressForEl(Rect(top, height), InnerHeight, InnerHeight)

\* all section ids of any variant
AllSections == 0..8

\* the progress of every section at scroll position y (0 for absent sections)
ProgressAt(v, y) ==
  [i \in AllSections |->
     IF i \in Range(SectionIds(v))
     THEN progressFor(SectionTop(v, i) - y, SectionHeight(v, i))
     ELSE 0]

ZeroProgress == [i \in AllSections |-> 0]

\* the offset into a section of height h at which its progress reaches pct
OffsetFor(h, pct) == (h * pct + (One - 1)) \div One

\* progress values explored within a section: the middle of every section,
\* the last 2% of section 1 (where the tent is snapped closed) and of the
\* Side section of the config-driven page, and the first 5% of section 0
ProgressExplored(v, id) ==
  {50} \cup (IF id = 1 THEN {98} ELSE {})
       \cup (IF v = "modular" /\ id = 5 THEN {98} ELSE {})
       \cup (IF id = 0 THEN {5} ELSE {})

\* scroll positions explored: the top of the page and offsets into each section
ScrollPositions(v) ==
  {0} \cup UNION { { SectionTop(v, i) + OffsetFor(SectionHeight(v, i), pct) :
                       pct \in ProgressExplored(v, i) } :
                   i \in Range(SectionIds(v)) }

-----------------------------------------------------------------------------
(* Config-driven ScrollSections (src/src/components/ScrollSections.js)      *)

\* resolveClipName(requested, clipNames)
resolveClipName(requested, names) ==
  IF requested = NoClip THEN NoClip
  ELSE IF requested \in Range(names) THEN requested
  ELSE LET lower == ToLower(requested)
           Hit(c) == LowerIncludes(c, lower)
       IN FindFirst(names, Hit)

\* const resolve = (name) => resolveClipName(name, api.clipNames || [])
resolve(name) == resolveClipName(name, apiClipNames)

\* a || b on clip names
OrClip(a, b) == IF a # NoClip THEN a ELSE b

tentOpenClose ==
  OrClip(resolve("TentOPENCLOSE"),
         OrClip(resolve("tentOpenClose"), resolve("TentOpenClose")))

\* timeline segments: pose, moveDuration and holdDuration in ticks of 50 ms
Seg(p, move, hold) == [pose |-> p, moveDuration |-> move, holdDuration |-> hold]

FLY_POSES ==
  << Seg(Pose(0, 800, 0 - 7000, 0, 500, 0), 2, 2),
     Seg(Pose(0, 500, 0 - 1400, 0, 2000, 0), 2, 2),
     Seg(Pose(0, 500, 0 - 1400, 0, 2000, 0), 0, 2) >>

SECTION8_FLY_POSES ==
  << Seg(Pose(0, 500, 0 - 5000, 0, 0, 0), 30, 20),
     Seg(Pose(3000, 500, 0 - 5000, 0, 0, 0), 2, 0),
     Seg(Pose(3000, 1600, 3400, 0, 500, 0), 80, 20) >>

\* ms per tick of the runners' clocks
TickMs == 50

IdlePose == Pose(3000, 1600, 3400, 0, 500, 0)

\* section actions: mode "scrub" maps the progress s, mode "snap" sets t when
\* its condition holds
ScrubAct(clip, map) == [mode |-> "scrub", clip |-> clip, map |-> map,
                        when |-> "always", t |-> 0]
SnapAct(clip, when, t) == [mode |-> "snap", clip |-> clip, map |-> "none",
                           when |-> when, t |-> t]

\* map: (s) => Math.max(0, 1 - s)   or   (s) => s
MapProgress(map, s) == IF map = "reverse" THEN Max2(0, One - s) ELSE s

\* when: (s) => s >= 0.98, or no condition
WhenHolds(when, s) == IF when = "nearEnd" THEN s >= 98 ELSE TRUE

\* buildSectionDefs(...)[id - 1].actions
SectionActions(id) ==
  CASE id = 1 -> << ScrubAct(resolve("animation0"), "reverse"),
                    ScrubAct(tentOpenClose, "reverse"),
                    SnapAct(resolve("animation0"), "nearEnd", 0),
                    SnapAct(tentOpenClose, "nearEnd", 0) >>
    [] id = 4 -> << ScrubAct(resolve("Door"), "identity") >>
    [] id = 5 -> << SnapAct(resolve("Door"), "always", 0),
                    SnapAct(resolve("BackWindow"), "always", 0),
                    ScrubAct(resolve("Side"), "identity") >>
    [] id = 6 -> << ScrubAct(resolve("BackWindow"), "identity") >>
    [] id = 7 -> << SnapAct(resolve("Door"), "always", One),
                    SnapAct(resolve("BackWindow"), "always", One),
                    SnapAct(resolve("Side"), "always", One) >>
    [] id = 8 -> << SnapAct(resolve("BackWindow"), "always", One),
                    SnapAct(resolve("Side"), "always", One),
                    SnapAct(resolve("animation0"), "always", 98),
                    SnapAct(tentOpenClose, "always", 98) >>
    [] OTHER  -> << >>

\* buildSectionDefs(...)[id - 1].camera for the "fixed" sections
SectionCameraMode(id) == IF id \in {7, 8} THEN "timeline" ELSE "fixed"

SectionPose(id) ==
  CASE id \in {1, 2} -> Pose(3200, 1700, 0 - 3600, 0, 500, 0)
    [] id = 3        -> Pose(1700, 1150, 0 - 1050, 0 - 700, 900, 0 - 1000)
    [] id = 4        -> Pose(1700, 1150, 0 - 800, 0 - 700, 900, 0 - 800)
    [] OTHER         -> Pose(0, 1500, 0 - 5000, 0, 0, 0)

\* camera.baseDuration(_, fast), in ms
SectionBaseDuration(id, fast) ==
  IF id \in {3, 4} THEN (IF fast THEN 1000 ELSE 3000)
  ELSE (IF fast THEN 1200 ELSE 3500)

\* onEnter: setGeo1Style(...) (sections 5 and 6 leave it alone); show3in(false)
SectionOnEnter(c, id) ==
  IF ~apiGroup THEN c
  ELSE [c EXCEPT !.geo1 = IF id \in {3, 4} THEN TRUE
                          ELSE IF id \in {5, 6} THEN @ ELSE FALSE,
                 !.vis3in = FALSE]

\* the scrubs onScroll builds for the active section at progress s
RECURSIVE BuildScrubs(_, _)
BuildScrubs(acts, s) ==
  IF acts = <<>> THEN <<>>
  ELSE LET act == Head(acts)
           rest == BuildScrubs(Tail(acts), s)
       IN IF act.clip = NoClip THEN rest
          ELSE IF act.mode = "scrub"
          THEN <<Entry(act.clip, Clamp(MapProgress(act.map, s), 0, One))>> \o rest
          ELSE IF WhenHolds(act.when, s)
          THEN <<Entry(act.clip, Clamp(act.t, 0, One))>> \o rest
          ELSE rest

\* api.scrub(entries, exclusive): dispatches scrubClips
ApiScrub(c, entries, exclusive) ==
  [c EXCEPT !.ev = Append(@, [type |-> "scrubClips", entries |-> entries,
                              exclusive |-> exclusive])]

\* animator.scrub(entries, exclusive): only when entries is not empty
AnimatorScrub(c, entries, exclusive) ==
  IF Len(entries) > 0 THEN ApiScrub(c, entries, exclusive) ELSE c

DispatchClearScrub(c) == [c EXCEPT !.ev = Append(@, [type |-> "clearScrub"])]

\* a variant of DispatchSectionChange that dispatches nothing
NoSectionChange(c, section) == c


DispatchSectionChange(c, section) ==
  [c EXCEPT !.ev = Append(@, [type |-> "sectionChange", section |-> section])]

\* ensureInitialOpenState (config-driven): 0.98 of animation0 and TentOPENCLOSE
InitialOpenEntries ==
  (IF resolve("animation0") # NoClip
   THEN <<Entry(resolve("animation0"), 98)>> ELSE <<>>)
  \o (IF tentOpenClose # NoClip THEN <<Entry(tentOpenClose, 98)>> ELSE <<>>)

ensureInitialOpenState(c) ==
  LET c1 == AnimatorScrub(c, InitialOpenEntries, TRUE)
  IN IF ~apiGroup THEN c1 ELSE [c1 EXCEPT !.vis3in = FALSE]

\* a runner as created by useRef
NewRunner == [running |-> FALSE, elapsed |-> 0, i |-> 0]

\* total length of a timeline, in ticks
RECURSIVE TimelineLength(_)
TimelineLength(poses) ==
  IF poses = <<>> THEN 0
  ELSE Head(poses).moveDuration + Head(poses).holdDuration
       + TimelineLength(Tail(poses))

\* index of the segment the elapsed time falls in, 0 when past the end
RECURSIVE SegmentAt(_, _, _, _)
SegmentAt(poses, k, tUsed, elapsed) ==
  IF k > Len(poses) THEN 0
  ELSE LET segLen == poses[k].moveDuration + poses[k].holdDuration IN
       IF elapsed < tUsed + segLen THEN k
       ELSE SegmentAt(poses, k + 1, tUsed + segLen, elapsed)

RECURSIVE TimeBefore(_, _)
TimeBefore(poses, k) ==
  IF k <= 1 THEN 0
  ELSE poses[k - 1].moveDuration + poses[k - 1].holdDuration
       + TimeBefore(poses, k - 1)

\* step of a camera timeline runner (startFlythrough / startSection8Flythrough);
\* r names the runner's field of the context, cb its callback
TimelineStep(c, r, cb, poses) ==
  LET runner == c[r] IN
  IF ~runner.running THEN c
  ELSE LET k == SegmentAt(poses, 1, 0, runner.elapsed) IN
       IF k = 0 THEN [c EXCEPT ![r].running = FALSE]
       ELSE LET seg == poses[k]
                inSeg == runner.elapsed - TimeBefore(poses, k)
                moving == inSeg <= seg.moveDuration
                c1 == [c EXCEPT ![r].i = k - 1]
                c2 == CamQueue(c1, seg.pose,
                               IF moving THEN seg.moveDuration * TickMs ELSE 100,
                               FALSE)
            IN [c2 EXCEPT !.raf = Append(@, cb)]

\* startFlythrough / startSection8Flythrough
StartTimeline(c, r, cb) ==
  [c EXCEPT ![r] = [running |-> TRUE, elapsed |-> 0, i |-> 0],
            !.raf = Append(@, cb)]

\* a variant of StopRunner that leaves the runner running
KeepRunning(c, r) == c

\* stopFlythrough / stopSection8Flythrough / stopSection8Animation
StopRunner(c, r) == [c EXCEPT ![r].running = FALSE]

\* the section 8 animation timeline: start and duration in ticks, fractions
\* in hundredths
Anim(clip, startTime, duration, from, to) ==
  [clip |-> clip, startTime |-> startTime, duration |-> duration,
   from |-> from, to |-> to]

SECTION8_ANIMATIONS ==
  << Anim("Door", 0, 20, One, 0),
     Anim("BackWindow", 0, 40, One, 0),
     Anim("Side", 4, 40, One, 0),
     Anim("TentOPENCLOSE", 12, 36, 0, One),
     Anim("animation0", 8, 40, 0, One) >>

\* the timeline with its clips resolved, without the clips that do not exist
animationTimeline ==
  SelectSeq([k \in DOMAIN SECTION8_ANIMATIONS |->
               [SECTION8_ANIMATIONS[k] EXCEPT
                  !.clip = IF @ = "TentOPENCLOSE" THEN tentOpenClose ELSE resolve(@)]],
            LAMBDA anim : anim.clip # NoClip)

\* the entry one timeline item contributes at the elapsed time
AnimEntry(anim, elapsed) ==
  LET animElapsed == elapsed - anim.startTime IN
  IF animElapsed >= 0
  THEN IF animElapsed <= anim.duration
       THEN Entry(anim.clip,
                  anim.from + ((anim.to - anim.from) * animElapsed) \div anim.duration)
       ELSE Entry(anim.clip, anim.to)
  ELSE Entry(anim.clip, anim.from)

AnimActive(anim, elapsed) ==
  elapsed - anim.startTime >= 0 /\ elapsed - anim.startTime <= anim.duration

\* startSection8Animation
StartSection8Animation(c) ==
  IF c.r8a.running THEN c
  ELSE [c EXCEPT !.r8a = [running |-> TRUE, elapsed |-> 0, i |-> 0],
                 !.raf = Append(@, "step8anim")]

\* step of the section 8 animation runner
Section8AnimStep(c) ==
  IF ~c.r8a.running THEN c
  ELSE LET tl == animationTimeline
           entries == [k \in 1..Len(tl) |-> AnimEntry(tl[k], c.r8a.elapsed)]
           anyActive == \E k \in 1..Len(tl) : AnimActive(tl[k], c.r8a.elapsed)
           c1 == AnimatorScrub(c, entries, FALSE)
       IN IF anyActive THEN [c1 EXCEPT !.raf = Append(@, "step8anim")]
          ELSE [c1 EXCEPT !.r8a.running = FALSE]

-----------------------------------------------------------------------------
(* Handler contexts of ScrollSections                                       *)

\* the context a handler of ScrollSections starts from
OrchCtx ==
  [cam |-> camQ, raf |-> rafQueue, ev |-> <<>>,
   r7 |-> section7Runner, r8 |-> section8Runner, r8a |-> section8AnimRunner,
   geo1 |-> geo1Styled, vis3in |-> visible3in, applied |-> appliedGeo1Ref,
   dropped |-> weightDroppedRef]

\* whether a setCameraPose event is among the dispatched events
HasPose(evs) == \E i \in DOMAIN evs : evs[i].type = "setCameraPose"

\* commit a handler's context: the dispatched events reach the listeners of
\* SceneContent synchronously, in order
SetOrchCtx(c) ==
  /\ camQ' = c.cam
  /\ rafQueue' = c.raf
  /\ section7Runner' = c.r7
  /\ section8Runner' = c.r8
  /\ section8AnimRunner' = c.r8a
  /\ geo1Styled' = c.geo1
  /\ visible3in' = c.vis3in
  /\ appliedGeo1Ref' = c.applied
  /\ weightDroppedRef' = c.dropped
  /\ emitted' = c.ev
  /\ SetSceneRefs(SceneListenAll(SceneRefs, c.ev))

\* the first section, top to bottom, whose progress is in (0, 1]
RECURSIVE FirstActive(_, _, _)
FirstActive(ids, p, none) ==
  IF ids = <<>> THEN none
  ELSE IF p[Head(ids)] > 0 /\ p[Head(ids)] <= One THEN Head(ids)
  ELSE FirstActive(Tail(ids), p, none)

\* the value of currentSection when no section is active
NoSection(v) == IF v = "modular" THEN 0 ELSE 0 - 1

\* let currentSection = ...; the section detection of onScroll
CurrentSection(v, p) == FirstActive(SectionIds(v), p, NoSection(v))

\* Object.values(p).some(v => v > 0)
AnyActive(p) == \E i \in AllSections : p[i] > 0

Abs(x) == IF x < 0 THEN 0 - x ELSE x

\* Math.max(...diffs) > 0: the only case in which isFast can be true
ProgressMoved(p, q) == \E i \in AllSections : Abs(p[i] - q[i]) > 0

-----------------------------------------------------------------------------
(* onScroll of the config-driven ScrollSections                             *)

\* the block run when currentSection !== lastSection; each step works on the
\* context x the steps before it left
ModularSectionChange(c, cur, last) ==
  LET Enter(x) == IF cur > 0 THEN SectionOnEnter(x, cur) ELSE x
      Start7(x) == IF cur = 7 /\ ~x.r7.running
                   THEN StartTimeline(x, "r7", "step7") ELSE x
      Stop7(x)  == IF last = 7 /\ x.r7.running THEN StopRunner(x, "r7") ELSE x
      Start8(x) == IF cur = 8 /\ ~x.r8.running
                   THEN StartSection8Animation(StartTimeline(x, "r8", "step8"))
                   ELSE x
      Stop8(x)  == IF last = 8 /\ x.r8.running
                   THEN StopRunner(StopRunner(x, "r8"), "r8a") ELSE x
  IN Stop8(Start8(Stop7(Start7(Enter(DispatchSectionChange(c, cur))))))

\* a variant of ScrubExclusive that makes every request exclusive
AlwaysExclusive(cur) == TRUE

\* const exclusive = currentSection !== 6
ScrubExclusive(cur) == cur # 6

ModularOnScroll(c, last, p, fast) ==
  LET cur == CurrentSection("modular", p)
      isInTransition == cur = 0 /\ AnyActive(p)
      Change(x) == IF cur # last THEN ModularSectionChange(x, cur, last) ELSE x
      Camera(x) == IF cur > 0 /\ SectionCameraMode(cur) = "fixed"
                   THEN CamQueue(x, SectionPose(cur),
                                 SectionBaseDuration(cur, fast), FALSE)
                   ELSE x
      Send(x, scrubs) ==
        IF cur = 8 THEN x
        ELSE IF Len(scrubs) > 0 THEN AnimatorScrub(x, scrubs, ScrubExclusive(cur))
        ELSE DispatchClearScrub(x)
      Idle(x) == IF ~AnyActive(p) /\ ~isInTransition
                 THEN CamQueue(x, IdlePose, 4000, FALSE) ELSE x
  IN Idle(Send(Camera(Change(c)),
               IF cur > 0 THEN BuildScrubs(SectionActions(cur), p[cur]) ELSE <<>>))

\* the cleanup returned by the scroll effect
ModularCleanup(c) ==
  StopRunner(StopRunner(StopRunner(CamReset(c), "r7"), "r8"), "r8a")

\* the scroll effect up to and including the kick, at the top of the page
ModularEffectBody(c) ==
  ModularOnScroll(CamQueue(CamReset(c), IdlePose, 0, TRUE), 0, ZeroProgress, FALSE)

-----------------------------------------------------------------------------
(* Legacy ScrollSections (src/unnamed/part_006) and the one of App.js        *)

\* api.clipNames.includes(name)
HasClip(name) == name \in Range(apiClipNames)

\* [{ name, t }] if the clip exists, else []
EntryIf(name, t) == IF HasClip(name) THEN <<Entry(name, t)>> ELSE <<>>

\* applyGeo1Style
applyGeo1Style(c) ==
  IF ~apiGroup THEN c
  ELSE IF c.applied THEN c
  ELSE [c EXCEPT !.geo1 = TRUE, !.applied = TRUE]

\* resetGeo1Style
resetGeo1Style(c) ==
  IF ~apiGroup THEN c ELSE [c EXCEPT !.geo1 = FALSE, !.applied = FALSE]

\* show3inObject / hide3inObject
show3inObject(c) == IF ~apiGroup THEN c ELSE [c EXCEPT !.vis3in = TRUE]
hide3inObject(c) == IF ~apiGroup THEN c ELSE [c EXCEPT !.vis3in = FALSE]

\* api.clipNames.find((n) => n.toLowerCase().includes("door"))
IsDoorName(name) == LowerIncludes(name, "door")
FindDoor == FindFirst(apiClipNames, IsDoorName)

\* the window clip section 2 scrubs: the back window clip, else a "possible" one
IsPossibleWindowName(name) ==
  LowerIncludes(name, "window") \/ LowerIncludes(name, "back")

WindowEntries(t) ==
  LET backWindowAnim == FindFirst(apiClipNames, IsBackWindowName)
      possibleWindowAnim == FindFirst(apiClipNames, IsPossibleWindowName)
  IN IF backWindowAnim # NoClip THEN <<Entry(backWindowAnim, t)>>
     ELSE IF possibleWindowAnim # NoClip THEN <<Entry(possibleWindowAnim, t)>>
     ELSE <<>>

\* FLY_POSES of part_006 / CAMERAS.fly of App.js (durations 2.0 s and 2.5 s)
LEGACY_FLY_POSES ==
  << Pose(0, 800, 0 - 7000, 0, 500, 0), Pose(0, 800, 0 - 1000, 0, 800, 0) >>

\* one coordinate of interpolatePose over the two fly poses a, b: tt is the
\* target time in ms (of 4500).  The Catmull-Rom curve through two points is
\* the straight line a..b for u in [0,1]; for u in (1,2] it is the cubic
\* b + (b - a)(2.5 w^3 - 3.5 w^2), w = u - 1, which ends back at a.
FlyCoord(a, b, tt) ==
  IF tt <= 2000 THEN a + ((b - a) * tt) \div 2000
  ELSE LET w == Min2(100, (tt - 2000) \div 25)
           k == (5 * w * w * w - 700 * w * w) \div 2000
       IN b + ((b - a) * k) \div 1000

\* interpolatePose(FLY_POSES, t); duration is durations[i], in ms
interpolatePose(t) ==
  LET tt == Clamp(t, 0, One) * 45
      a == LEGACY_FLY_POSES[1]
      b == LEGACY_FLY_POSES[2]
      Co(f, k) == FlyCoord(a[f][k], b[f][k], tt)
  IN [position |-> <<Co("position", 1), Co("position", 2), Co("position", 3)>>,
      target |-> <<Co("target", 1), Co("target", 2), Co("target", 3)>>,
      duration |-> IF tt <= 2000 THEN 2000 ELSE 2500]

PoseOf(r) == [position |-> r.position, target |-> r.target]

\* whether section i is active: s > 0 && s <= 1
Active(p, i) == p[i] > 0 /\ p[i] <= One

\* the section blocks of onScroll in part_006, each on the context x the
\* blocks before it left
LegacyBlocks(c, p, fast) ==
  LET S1(x) == IF Active(p, 1)
               THEN CamQueue(hide3inObject(resetGeo1Style(x)),
                             Pose(3200, 1700, 0 - 3600, 0, 500, 0),
                             IF fast THEN 1200 ELSE 3500, FALSE)
               ELSE x
      S2(x) == IF Active(p, 2)
               THEN CamQueue(hide3inObject(applyGeo1Style(x)),
                             Pose(1700, 1150, 0 - 1050, 0 - 700, 900, 0),
                             IF fast THEN 1000 ELSE 3000, FALSE)
               ELSE x
      S3(x) == IF Active(p, 3)
               THEN CamQueue(show3inObject(applyGeo1Style(x)),
                             Pose(1700, 1150, 0 - 1050, 0 - 700, 900, 0),
                             IF fast THEN 1000 ELSE 3000, FALSE)
               ELSE x
      S4(x) == IF Active(p, 4)
               THEN CamQueue(hide3inObject(x), Pose(0, 1500, 0 - 5000, 0, 0, 0),
                             IF fast THEN 1200 ELSE 3500, FALSE)
               ELSE x
      S5(x) == IF Active(p, 5)
               THEN CamQueue(hide3inObject(x), PoseOf(interpolatePose(p[5])),
                             IF fast THEN 900 ELSE 2200, FALSE)
               ELSE x
      S6(x) == IF Active(p, 6)
               THEN CamQueue(resetGeo1Style(hide3inObject(x)), IdlePose,
                             IF fast THEN 1500 ELSE 4000, FALSE)
               ELSE x
  IN S6(S5(S4(S3(S2(S1(c))))))

\* the entries the section blocks of part_006 push
LegacyEntries(p, door) ==
  (IF Active(p, 1)
   THEN EntryIf("animation0", Max2(0, One - p[1]))
        \o EntryIf("TentOPENCLOSE", Max2(0, One - p[1]))
        \o (IF p[1] >= 98
            THEN EntryIf("animation0", 0) \o EntryIf("TentOPENCLOSE", 0)
            ELSE <<>>)
   ELSE <<>>)
  \o (IF Active(p, 2)
      THEN (IF door # NoClip THEN <<Entry(door, p[2])>> ELSE <<>>)
           \o WindowEntries(p[2])
      ELSE <<>>)
  \o (IF Active(p, 4) THEN EntryIf("Side", p[4]) ELSE <<>>)
  \o (IF Active(p, 6)
      THEN EntryIf("animation0", 0) \o EntryIf("TentOPENCLOSE", 0)
           \o (IF door # NoClip THEN <<Entry(door, 0)>> ELSE <<>>)
           \o (LET w == FindFirst(apiClipNames, IsBackWindowName)
               IN IF w # NoClip THEN <<Entry(w, 0)>> ELSE <<>>)
           \o EntryIf("Side", 0)
      ELSE <<>>)

\* api.scrub(entries, true) if there are entries, else clearScrub
ScrubOrClear(c, entries) ==
  IF Len(entries) > 0 THEN ApiScrub(c, entries, TRUE) ELSE DispatchClearScrub(c)

\* the tail of onScroll when no block pushed an entry
LegacyNoEntries(c, closed, p) ==
  LET isInTransition == CurrentSection("legacy", p) = 0 - 1 /\ AnyActive(p)
      restInactive == \A i \in 2..6 : p[i] = 0
      allSectionsInactive == \A i \in 1..6 : p[i] = 0
      Closed(x) == IF closed /\ restInactive
                   THEN ScrubOrClear(x, EntryIf("animation0", 0)
                                        \o EntryIf("TentOPENCLOSE", 0))
                   ELSE DispatchClearScrub(x)
      Idle(x) == IF allSectionsInactive /\ ~isInTransition
                 THEN CamQueue(hide3inObject(x), IdlePose, 4000, FALSE)
                 ELSE x
      Reset(x) == IF p[2] = 0 /\ p[3] = 0 THEN resetGeo1Style(x) ELSE x
  IN Reset(Idle(Closed(c)))

\* api.scrub(entries, true) when the blocks pushed entries, else the tail
LegacySend(c, entries, closed, p) ==
  IF Len(entries) > 0 THEN ApiScrub(c, entries, TRUE)
  ELSE LegacyNoEntries(c, closed, p)

\* onScroll of part_006
LegacyOnScroll(c, last, closed, door, p, fast) ==
  LET cur == CurrentSection("legacy", p)
      Change(x) == IF cur # last THEN DispatchSectionChange(x, cur) ELSE x
  IN LegacySend(LegacyBlocks(Change(c), p, fast), LegacyEntries(p, door),
                closed, p)

\* ensureInitialOpenState of part_006: animation0 and TentOPENCLOSE at t = 1
LegacyOpenEntries == EntryIf("animation0", One) \o EntryIf("TentOPENCLOSE", One)

LegacyEnsureInitialOpenState(c) ==
  hide3inObject(IF Len(apiClipNames) > 0 /\ Len(LegacyOpenEntries) > 0
                THEN ApiScrub(c, LegacyOpenEntries, TRUE) ELSE c)

\* the scroll effect of part_006 up to and including the kick
LegacyEffectBody(c, door, p, fast) ==
  LegacyOnScroll(
    LegacyEnsureInitialOpenState(CamQueue(CamReset(c), IdlePose, 0, TRUE)),
    0 - 1, FALSE, door, p, fast)

-----------------------------------------------------------------------------
(* ScrollSections of App.js (sections 0..6, no camera queue)                *)

\* CAMERAS: pose and duration (ms)
CameraCfg(p, duration) ==
  [position |-> p.position, target |-> p.target, duration |-> duration]

CAMERAS ==
  [s1   |-> CameraCfg(Pose(0 - 3200, 1700, 0 - 3600, 0, 500, 0), 3500),
   s2   |-> CameraCfg(Pose(0 - 1700, 1150, 0 - 1050, 700, 900, 0), 3000),
   s3   |-> CameraCfg(Pose(0 - 1700, 1150, 0 - 1050, 700, 900, 0), 3000),
   s4   |-> CameraCfg(Pose(0, 1500, 0 - 5000, 0, 0, 0), 3500),
   s6   |-> CameraCfg(Pose(0 - 1700, 1150, 0 - 1050, 700, 900, 0), 3000),
   idle |-> CameraCfg(IdlePose, 4000)]

\* setCameraPose({ position, target, duration }, immediate): dispatches at once
setCameraPose(c, cfg, immediate) ==
  [c EXCEPT !.ev = Append(@, [type |-> "setCameraPose",
                              position |-> cfg.position, target |-> cfg.target,
                              duration |-> IF cfg.duration = 0 THEN 2000
                                           ELSE cfg.duration,
                              immediate |-> immediate])]

\* both open clips at t = 1
AppOpenEntries == EntryIf("animation0", One) \o EntryIf("TentOPENCLOSE", One)

\* "Force BOTH animation0 and TentOPENCLOSE to t=1 when entering Scene 0"
AppEnterScene0(c, p, lastP) ==
  IF p[0] > 0 /\ lastP[0] = 0 /\ Len(AppOpenEntries) > 0
  THEN ApiScrub(c, AppOpenEntries, TRUE) ELSE c

\* the drop without the latch: weightDroppedRef is never set
TriggerWeightDropUnlatched(x, p) ==
  IF p[0] > 10 /\ ~x.dropped
  THEN [x EXCEPT !.ev = Append(@, [type |-> "triggerWeightDrop",
                                   pounds |-> 1500])]
  ELSE x

\* "Trigger weight drop once when entering this section"
TriggerWeightDrop(x, p) ==
  IF p[0] > 10 /\ ~x.dropped
  THEN [x EXCEPT !.ev = Append(@, [type |-> "triggerWeightDrop",
                                   pounds |-> 1500]),
                 !.dropped = TRUE]
  ELSE x

\* the section 0 block: weight drop once per visit, idle camera
AppSection0(c, p, fast) ==
  IF Active(p, 0)
  THEN setCameraPose(TriggerWeightDrop(resetGeo1Style(c), p), CAMERAS.idle, fast)
  ELSE [c EXCEPT !.dropped = FALSE]

\* the blocks of sections 1..6, each on the context x the blocks before it left
AppBlocks(c, p, fast) ==
  LET S1(x) == IF Active(p, 1)
               THEN setCameraPose(resetGeo1Style(x), CAMERAS.s1, fast) ELSE x
      S2(x) == IF Active(p, 2)
               THEN setCameraPose(applyGeo1Style(x), CAMERAS.s2, fast) ELSE x
      S3(x) == IF Active(p, 3)
               THEN setCameraPose(applyGeo1Style(x), CAMERAS.s3, fast) ELSE x
      S4(x) == IF Active(p, 4) THEN setCameraPose(x, CAMERAS.s4, fast) ELSE x
      S5(x) == IF Active(p, 5) THEN setCameraPose(x, interpolatePose(p[5]), fast)
               ELSE x
      S6(x) == IF Active(p, 6) THEN setCameraPose(x, CAMERAS.s6, fast) ELSE x
  IN S6(S5(S4(S3(S2(S1(c))))))

\* the entries the section blocks of App.js push
AppEntries(p, door) ==
  (IF Active(p, 0)
   THEN EntryIf("animation0", 91) \o EntryIf("TentOPENCLOSE", One)
   ELSE <<>>)
  \o (IF Active(p, 1)
      THEN EntryIf("animation0", Max2(0, One - p[1]))
           \o EntryIf("TentOPENCLOSE", Max2(0, One - p[1]))
           \o (IF p[1] >= 98
               THEN EntryIf("animation0", 0) \o EntryIf("TentOPENCLOSE", 0)
               ELSE <<>>)
      ELSE <<>>)
  \o (IF Active(p, 2)
      THEN (IF door # NoClip THEN <<Entry(door, p[2])>> ELSE <<>>)
           \o WindowEntries(p[2])
      ELSE <<>>)
  \o (IF Active(p, 4) THEN EntryIf("Side", p[4]) ELSE <<>>)

\* the tail of onScroll when no block pushed an entry
AppNoEntries(c, closed, p, fast) ==
  LET isInTransition == CurrentSection("app", p) = 0 - 1 /\ AnyActive(p)
      restInactive == \A i \in 2..6 : p[i] = 0
      allSectionsInactive == \A i \in 0..6 : p[i] = 0
      Closed(x) == IF p[0] > 0 THEN ScrubOrClear(x, AppOpenEntries)
                   ELSE IF closed /\ restInactive
                   THEN ScrubOrClear(x, EntryIf("animation0", 0)
                                        \o EntryIf("TentOPENCLOSE", 0))
                   ELSE DispatchClearScrub(x)
      Idle(x) == IF allSectionsInactive /\ ~isInTransition
                 THEN setCameraPose(x, CAMERAS.idle, fast) ELSE x
      Reset(x) == IF p[2] = 0 /\ p[3] = 0 THEN resetGeo1Style(x) ELSE x
  IN Reset(Idle(Closed(c)))

\* api.scrub(entries, true) when the blocks pushed entries, else the tail
AppSend(c, entries, closed, p, fast) ==
  IF Len(entries) > 0 THEN ApiScrub(c, entries, TRUE)
  ELSE AppNoEntries(c, closed, p, fast)

\* onScroll of App.js
AppOnScroll(c, last, closed, door, p, lastP, fast) ==
  LET cur == CurrentSection("app", p)
      Change(x) == IF cur # last THEN DispatchSectionChange(x, cur) ELSE x
  IN AppSend(AppBlocks(AppSection0(Change(AppEnterScene0(c, p, lastP)), p, fast),
                       p, fast),
             AppEntries(p, door), closed, p, fast)

\* ensureInitialOpenState of App.js
AppEnsureInitialOpenState(c) ==
  IF Len(apiClipNames) > 0 /\ Len(AppOpenEntries) > 0
  THEN ApiScrub(c, AppOpenEntries, TRUE) ELSE c

\* the effect run when api.clipNames changes: "if clips arrive late AND we're
\* already in Scene 0, force both to 1"
AppLateClipsEffect(c, p) ==
  IF Len(apiClipNames) > 0 /\ p[0] > 0 /\ Len(AppOpenEntries) > 0
  THEN ApiScrub(c, AppOpenEntries, TRUE) ELSE c

\* the scroll effect of App.js up to and including the kick, then the
\* late-clips effect declared after it
AppEffectBody(c, door, p, fast) ==
  AppLateClipsEffect(
    AppOnScroll(AppEnsureInitialOpenState(setCameraPose(c, CAMERAS.idle, TRUE)),
                0 - 1, FALSE, door, p, ZeroProgress, fast),
    p)

-----------------------------------------------------------------------------
(* Actions of the running page                                              *)

\* largest number of scroll/resize events handled within one effect run
MaxScrolls == 1

\* time between two animation frames, in ticks
TickSteps == {6}

\* the state right after the first render of the page, before any effect ran
InitOrch ==
  /\ variant \in Variants
  /\ apiClipNames = <<>>
  /\ apiGroup = FALSE
  /\ effectPending = TRUE
  /\ effectOn = FALSE
  /\ scrollY = 0
  /\ lastSection = NoSection(variant)
  /\ lastProgress = ZeroProgress
  /\ tentHasBeenClosed = FALSE
  /\ doorNameRef = NoClip
  /\ appliedGeo1Ref = FALSE
  /\ geo1Styled = FALSE
  /\ visible3in = TRUE
  /\ weightDroppedRef = FALSE
  /\ initTimers = 0
  /\ camQ = NewCameraQueue
  /\ rafQueue = <<>>
  /\ section7Runner = NewRunner
  /\ section8Runner = NewRunner
  /\ section8AnimRunner = NewRunner

InitHist ==
  /\ scrollsSinceStart = 0 /\ framedSinceStart = FALSE
  /\ posedSinceStart = FALSE /\ dropsThisStay = 0

\* SceneContent before the model has loaded: no actions yet
InitSceneEmpty ==
  /\ clipNames = <<>>
  /\ actions = <<>>
  /\ scrubRef = EmptyScrub
  /\ sectionRef = 0 - 1
  /\ animationStartedRef = FALSE
  /\ mattressAnimationStartedRef = FALSE

\* the number of triggerWeightDrop events among the events
DropCount(evs) ==
  Cardinality({k \in DOMAIN evs : evs[k].type = "triggerWeightDrop"})

\* the drops of the current stay in section 0 after an onScroll call at
\* progress p that dispatched evs; the stay ends when section 0 is inactive
DropsAfter(p, evs) ==
  IF p[0] > 0 THEN dropsThisStay + DropCount(evs) ELSE 0

\* isFast can only be true when some progress changed since the last call
FastChoices(p, lastP) == IF ProgressMoved(p, lastP) THEN BOOLEAN ELSE {FALSE}

\* what one call of onScroll leaves in the closure variables
SetScrollClosure(p, closedBefore) ==
  /\ lastSection' = CurrentSection(variant, p)
  /\ lastProgress' = p
  /\ tentHasBeenClosed' = IF variant = "modular" THEN closedBefore
                          ELSE (closedBefore \/ p[1] >= 98)

\* the GLB has loaded: useAnimations creates the actions and the effect of
\* SceneContent publishes them; useAnimationAPI stores names and group
ModelLoadedWith(lists) ==
  /\ clipNames = <<>>
  /\ ~effectPending
  /\ \E names \in lists :
       /\ clipNames' = names
       /\ actions' = [n \in Range(names) |-> NewAction]
       /\ apiClipNames' = names
  /\ apiGroup' = TRUE
  /\ effectPending' = TRUE
  /\ op' = "publish" /\ emitted' = <<>>
  /\ UNCHANGED libVars
  /\ UNCHANGED <<scrubRef, sectionRef, animationStartedRef,
                 mattressAnimationStartedRef, variant, effectOn, scrollY,
                 lastSection, lastProgress, tentHasBeenClosed, doorNameRef,
                 appliedGeo1Ref, geo1Styled, visible3in, weightDroppedRef,
                 initTimers, camQ, rafQueue, section7Runner, section8Runner,
                 section8AnimRunner, histVars>>

ModelLoaded == ModelLoadedWith(ClipLists)

\* cleanup of the previous run of the scroll effect
EffectCleanup(c) ==
  IF ~effectOn THEN c
  ELSE IF variant = "modular" THEN ModularCleanup(c)
  ELSE IF variant = "legacy" THEN CamReset(c)
  ELSE c

\* the scroll effect of the config-driven ScrollSections
ModularEffectRun ==
  /\ variant = "modular"
  /\ effectPending
  /\ effectPending' = FALSE
  /\ IF Len(apiClipNames) = 0
     THEN /\ SetOrchCtx(EffectCleanup(OrchCtx))
          /\ effectOn' = FALSE
          /\ UNCHANGED histVars
          /\ UNCHANGED <<scrollY, lastSection, lastProgress, tentHasBeenClosed,
                         initTimers>>
     ELSE LET p == ProgressAt(variant, 0)
              c == ModularOnScroll(
                     CamQueue(CamReset(EffectCleanup(OrchCtx)), IdlePose, 0, TRUE),
                     0, p, FALSE)
          IN /\ SetOrchCtx(c)
             /\ effectOn' = TRUE
             /\ scrollY' = 0
             /\ initTimers' = initTimers + 1
             /\ SetScrollClosure(p, FALSE)
             /\ posedSinceStart' = HasPose(c.ev)
             /\ framedSinceStart' = FALSE
             /\ scrollsSinceStart' = 0
             /\ UNCHANGED dropsThisStay
  /\ op' = "effect"
  /\ UNCHANGED libVars
  /\ UNCHANGED <<clipNames, actions, variant, apiClipNames, apiGroup,
                 doorNameRef>>

\* the effects of part_006 / App.js: the door effect, then the scroll effect
LegacyEffectRun ==
  /\ variant # "modular"
  /\ effectPending
  /\ effectPending' = FALSE
  /\ LET door == IF Len(apiClipNames) = 0 THEN doorNameRef ELSE FindDoor
         p == ProgressAt(variant, scrollY)
     IN \E fast \in FastChoices(p, ZeroProgress) :
          LET c == IF variant = "legacy"
                   THEN LegacyEffectBody(EffectCleanup(OrchCtx), door, p, fast)
                   ELSE AppEffectBody(EffectCleanup(OrchCtx), door, p, fast)
          IN /\ SetOrchCtx(c)
             /\ doorNameRef' = door
             /\ SetScrollClosure(p, FALSE)
             /\ posedSinceStart' = HasPose(c.ev)
             /\ dropsThisStay' = DropsAfter(p, c.ev)
  /\ effectOn' = TRUE
  /\ framedSinceStart' = FALSE
  /\ scrollsSinceStart' = 0
  /\ op' = "effect"
  /\ UNCHANGED libVars
  /\ UNCHANGED <<clipNames, actions, variant, apiClipNames, apiGroup,
                 scrollY, initTimers>>

\* the page is scrolled to y and the (throttled) scroll handler runs
OnScrollAt(positions, most) ==
  /\ effectOn /\ ~effectPending
  /\ scrollsSinceStart < most
  /\ scrollsSinceStart' = scrollsSinceStart + 1
  /\ \E y \in positions :
       LET p == ProgressAt(variant, y) IN
       \E fast \in FastChoices(p, lastProgress) :
         LET c == CASE variant = "modular" ->
                       ModularOnScroll(OrchCtx, lastSection, p, fast)
                    [] variant = "legacy" ->
                       LegacyOnScroll(OrchCtx, lastSection, tentHasBeenClosed,
                                      doorNameRef, p, fast)
                    [] OTHER ->
                       AppOnScroll(OrchCtx, lastSection, tentHasBeenClosed,
                                   doorNameRef, p, lastProgress, fast)
         IN /\ SetOrchCtx(c)
            /\ scrollY' = y
            /\ SetScrollClosure(p, tentHasBeenClosed)
            /\ posedSinceStart' = (posedSinceStart \/ HasPose(c.ev))
            /\ dropsThisStay' = DropsAfter(p, c.ev)
  /\ op' = "onScroll"
  /\ UNCHANGED libVars
  /\ UNCHANGED <<clipNames, actions, variant, apiClipNames, apiGroup,
                 effectPending, effectOn, doorNameRef, initTimers,
                 framedSinceStart>>

OnScroll == OnScrollAt(ScrollPositions(variant), MaxScrolls)

\* setTimeout(() => { ensureInitialOpenState(); }, 0) fires
InitTimerFire ==
  /\ initTimers > 0 /\ ~effectPending
  /\ initTimers' = initTimers - 1
  /\ SetOrchCtx(ensureInitialOpenState(OrchCtx))
  /\ op' = "initTimer"
  /\ UNCHANGED libVars
  /\ UNCHANGED <<clipNames, actions, variant, apiClipNames, apiGroup,
                 effectPending, effectOn, scrollY, lastSection,
                 lastProgress, tentHasBeenClosed, doorNameRef, histVars>>

\* a runner's clock after dt more ticks (performance.now() - runner.start)
Advance(r, dt, cap) ==
  IF r.running THEN [r EXCEPT !.elapsed = Min2(cap, @ + dt)] ELSE r

\* the time after which the section 8 animation has nothing active
Section8AnimEnd ==
  1 + CHOOSE m \in 0..200 :
        /\ \E k \in DOMAIN SECTION8_ANIMATIONS :
             m = SECTION8_ANIMATIONS[k].startTime + SECTION8_ANIMATIONS[k].duration
        /\ \A k \in DOMAIN SECTION8_ANIMATIONS :
             m >= SECTION8_ANIMATIONS[k].startTime + SECTION8_ANIMATIONS[k].duration

RunCallback(c, cb) ==
  CASE cb = "flush"     -> CamFlush(c)
    [] cb = "step7"     -> TimelineStep(c, "r7", "step7", FLY_POSES)
    [] cb = "step8"     -> TimelineStep(c, "r8", "step8", SECTION8_FLY_POSES)
    [] cb = "step8anim" -> Section8AnimStep(c)
    [] OTHER            -> c

\* the callbacks run one after the other, each on the context (x) the one
\* before it left
RECURSIVE RunCallbacks(_, _)
RunCallbacks(c, cbs) ==
  IF cbs = <<>> THEN c
  ELSE CHOOSE done \in { RunCallbacks(RunCallback(x, Head(cbs)), Tail(cbs)) :
                           x \in {c} } : TRUE

\* the browser runs the requestAnimationFrame callbacks registered so far;
\* callbacks they register wait for the next frame
AnimationFrameWith(steps) ==
  /\ rafQueue # <<>> /\ ~effectPending
  /\ \E dt \in steps :
       \E c \in { RunCallbacks(
                     [OrchCtx EXCEPT
                        !.raf = <<>>,
                        !.r7 = Advance(@, dt, TimelineLength(FLY_POSES)),
                        !.r8 = Advance(@, dt, TimelineLength(SECTION8_FLY_POSES)),
                        !.r8a = Advance(@, dt, Section8AnimEnd)],
                     rafQueue) } :
          /\ SetOrchCtx(c)
          /\ posedSinceStart' = (posedSinceStart \/ HasPose(c.ev))
  /\ op' = "raf"
  /\ UNCHANGED libVars
  /\ UNCHANGED <<clipNames, actions, variant, apiClipNames, apiGroup,
                 effectPending, effectOn, scrollY, lastSection,
                 lastProgress, tentHasBeenClosed, doorNameRef, initTimers,
                 scrollsSinceStart, framedSinceStart, dropsThisStay>>

AnimationFrame == AnimationFrameWith(TickSteps)

-----------------------------------------------------------------------------
(* useGzipGLTF with fallback to the uncompressed asset                       *)
(* (src/verify-deployment.sh).  A run is one execution of the effect: the    *)
(* async function loadGLTF with the `cancelled` flag of its closure.  The    *)
(* state of the hook (useState) outlives the runs.                           *)

\* most runs of the effect of one hook: the mount, and re-runs after a cleanup
MaxRuns == 2

\* the two urls a run may request
GzipUrl == "url.gz"
PlainUrl == "url"

\* useState(null), useState(null), useState(true)
NewFallbackHook == [gltfData |-> FALSE, error |-> FALSE, loading |-> TRUE]

\* a run right after the effect called loadGLTF(): fetch(gzipUrl) is in
\* flight.  gz, gzBody, raw, rawBody and parse record what the network, pako
\* and the GLTF parser answered; result is what the run did to the hook.
NewFallbackRun ==
  [pc |-> "fetchGz", cancelled |-> FALSE, requests |-> <<GzipUrl>>,
   gz |-> "pending", gzBody |-> "pending", raw |-> "pending",
   rawBody |-> "pending", parse |-> "pending", result |-> "none"]

\* a run together with the hook state it writes
FbState(r, h) == [r |-> r, h |-> h]

\* catch (err) of loadGLTF: if (!cancelled) { setError(err); setLoading(false) }
FbCatch(s) ==
  IF s.r.cancelled THEN [s EXCEPT !.r.pc = "done"]
  ELSE [s EXCEPT !.r.pc = "done", !.r.result = "error",
                 !.h.error = TRUE, !.h.loading = FALSE]

\* catch (gzipError): response = await fetch(url)
FbFallback(s) ==
  [s EXCEPT !.r.pc = "fetchRaw", !.r.requests = Append(@, PlainUrl)]

\* if (cancelled) return; ... loader.parse(data, '', onLoad, onError); a throw
\* of loader.parse itself lands in catch (err)
FbStartParse(s, throws) ==
  IF s.r.cancelled THEN [s EXCEPT !.r.pc = "done"]
  ELSE IF throws THEN FbCatch([s EXCEPT !.r.parse = "throw"])
  ELSE [s EXCEPT !.r.pc = "parse"]

\* a variant of FbAfterGzBody that treats a failed decompression as final
FbAfterGzBodyNoFallback(s, outcome, throws) ==
  IF outcome = "ok" THEN FbStartParse([s EXCEPT !.r.gzBody = outcome], throws)
  ELSE FbCatch([s EXCEPT !.r.gzBody = outcome])

\* response = await fetch(gzipUrl) settled: "reject", "notOk" or "ok"
FbAfterGz(s, outcome) ==
  IF outcome = "ok" THEN [s EXCEPT !.r.gz = outcome, !.r.pc = "bodyGz"]
  ELSE FbFallback([s EXCEPT !.r.gz = outcome])

\* await response.arrayBuffer() and pako.inflate: the body was read and
\* inflated ("ok"), reading rejected ("reject") or inflate threw ("corrupt")
FbAfterGzBody(s, outcome, throws) ==
  IF outcome = "ok" THEN FbStartParse([s EXCEPT !.r.gzBody = outcome], throws)
  ELSE FbFallback([s EXCEPT !.r.gzBody = outcome])

\* response = await fetch(url) settled; if (!response.ok) throw
FbAfterRaw(s, outcome) ==
  IF outcome = "ok" THEN [s EXCEPT !.r.raw = outcome, !.r.pc = "bodyRaw"]
  ELSE FbCatch([s EXCEPT !.r.raw = outcome])

\* data = await response.arrayBuffer() settled
FbAfterRawBody(s, outcome, throws) ==
  IF outcome = "ok" THEN FbStartParse([s EXCEPT !.r.rawBody = outcome], throws)
  ELSE FbCatch([s EXCEPT !.r.rawBody = outcome])

\* the callbacks of loader.parse: onLoad ("ok") or onError ("error")
FbAfterParse(s, outcome) ==
  IF s.r.cancelled THEN [s EXCEPT !.r.pc = "done", !.r.parse = outcome]
  ELSE IF outcome = "ok"
  THEN [s EXCEPT !.r.pc = "done", !.r.parse = outcome, !.r.result = "model",
                 !.h.gltfData = TRUE, !.h.loading = FALSE]
  ELSE [s EXCEPT !.r.pc = "done", !.r.parse = outcome, !.r.result = "error",
                 !.h.error = TRUE, !.h.loading = FALSE]

InitFallback == fbRuns = <<>> /\ fbHook = NewFallbackHook

\* commit the step of run i
SetFallback(i, s) ==
  /\ fbRuns' = [fbRuns EXCEPT ![i] = s.r]
  /\ fbHook' = s.h

\* the frame of every action of this hook
FbOther(name) ==
  /\ op' = name /\ emitted' = <<>>
  /\ UNCHANGED <<sceneVars, orchVars, histVars, gcVars, rigVars, uiVars>>

\* React runs the effect: at mount, or again after the cleanup of the run
\* before (url change, remount); setLoading(true), then fetch(gzipUrl)
FbEffect ==
  /\ Len(fbRuns) < MaxRuns
  /\ \A i \in DOMAIN fbRuns : fbRuns[i].cancelled
  /\ fbRuns' = Append(fbRuns, NewFallbackRun)
  /\ fbHook' = [fbHook EXCEPT !.loading = TRUE]
  /\ FbOther("fbEffect")

\* the cleanup of the effect: cancelled = true
FbCleanup ==
  /\ \E i \in DOMAIN fbRuns :
       /\ ~fbRuns[i].cancelled
       /\ fbRuns' = [fbRuns EXCEPT ![i].cancelled = TRUE]
  /\ UNCHANGED fbHook
  /\ FbOther("fbCleanup")

FbGzResponse ==
  /\ \E i \in DOMAIN fbRuns, outcome \in {"reject", "notOk", "ok"} :
       /\ fbRuns[i].pc = "fetchGz"
       /\ SetFallback(i, FbAfterGz(FbState(fbRuns[i], fbHook), outcome))
  /\ FbOther("fbGz")

FbGzBody ==
  /\ \E i \in DOMAIN fbRuns, outcome \in {"reject", "corrupt", "ok"},
        throws \in BOOLEAN :
       /\ fbRuns[i].pc = "bodyGz"
       /\ SetFallback(i, FbAfterGzBody(FbState(fbRuns[i], fbHook), outcome, throws))
  /\ FbOther("fbGzBody")

FbRawResponse ==
  /\ \E i \in DOMAIN fbRuns, outcome \in {"reject", "notOk", "ok"} :
       /\ fbRuns[i].pc = "fetchRaw"
       /\ SetFallback(i, FbAfterRaw(FbState(fbRuns[i], fbHook), outcome))
  /\ FbOther("fbRaw")

FbRawBody ==
  /\ \E i \in DOMAIN fbRuns, outcome \in {"reject", "ok"}, throws \in BOOLEAN :
       /\ fbRuns[i].pc = "bodyRaw"
       /\ SetFallback(i, FbAfterRawBody(FbState(fbRuns[i], fbHook), outcome, throws))
  /\ FbOther("fbRawBody")

FbParsed ==
  /\ \E i \in DOMAIN fbRuns, outcome \in {"ok", "error"} :
       /\ fbRuns[i].pc = "parse"
       /\ SetFallback(i, FbAfterParse(FbState(fbRuns[i], fbHook), outcome))
  /\ FbOther("fbParsed")

-----------------------------------------------------------------------------
(* The caching useGzipGLTF (src/src/hooks/useGzipGLTF.js).  gltfCache is a   *)
(* module-level Map shared by every component that uses the hook; a run is   *)
(* one execution of the effect of one such component, all with the same url. *)

\* most runs of the effect, over all components using the url
MaxLoads == 3

\* a run right after the effect found no cache entry and called
\* loadGzipGLTF(): fetch(url) is in flight
NewCacheRun == [pc |-> "fetch", cancelled |-> FALSE, result |-> "none"]

\* a run that found the url in the cache: it sets its state and returns
CachedRun(entry) == [pc |-> "done", cancelled |-> FALSE, result |-> entry]

\* a run with the cache entry it may write
GcState(r, cache) == [r |-> r, cache |-> cache]

\* catch (err) and the onError callback of loader.load:
\* if (!cancelled) { gltfCache.set(url, { gltf: null, error }); setError(...) }
GcFail(s) ==
  IF s.r.cancelled THEN [s EXCEPT !.r.pc = "done"]
  ELSE [s EXCEPT !.r.pc = "done", !.r.result = "error", !.cache = "error"]

\* response = await fetch(url) settled; if (!response.ok) throw
GcAfterFetch(s, outcome) ==
  IF outcome = "ok" THEN [s EXCEPT !.r.pc = "body"] ELSE GcFail(s)

\* await response.arrayBuffer(), the magic-byte test and pako.inflate; then
\* if (cancelled) return; loader.load(blobUrl, onLoad, undefined, onError)
GcAfterBody(s, outcome) ==
  IF outcome # "ok" THEN GcFail(s)
  ELSE IF s.r.cancelled THEN [s EXCEPT !.r.pc = "done"]
  ELSE [s EXCEPT !.r.pc = "load"]

\* the callbacks of loader.load
GcAfterLoad(s, outcome) ==
  IF outcome # "ok" THEN GcFail(s)
  ELSE IF s.r.cancelled THEN [s EXCEPT !.r.pc = "done"]
  ELSE [s EXCEPT !.r.pc = "done", !.r.result = "gltf", !.cache = "gltf"]

InitCache == gltfCache = "empty" /\ gcRuns = <<>> /\ gcFetches = 0

SetCache(i, s) ==
  /\ gcRuns' = [gcRuns EXCEPT ![i] = s.r]
  /\ gltfCache' = s.cache

\* the frame of every action of this hook
GcOther(name) ==
  /\ op' = name /\ emitted' = <<>>
  /\ UNCHANGED <<sceneVars, orchVars, histVars, fbVars, rigVars, uiVars>>

\* a component using the hook mounts (or its effect re-runs): the effect
\* takes the cache entry if there is one, else it starts loadGzipGLTF()
GcEffect ==
  /\ Len(gcRuns) < MaxLoads
  /\ IF gltfCache # "empty"
     THEN /\ gcRuns' = Append(gcRuns, CachedRun(gltfCache))
          /\ UNCHANGED gcFetches
     ELSE /\ gcRuns' = Append(gcRuns, NewCacheRun)
          /\ gcFetches' = gcFetches + 1
  /\ UNCHANGED gltfCache
  /\ GcOther("gcEffect")

\* the cleanup of a run's effect (unmount): cancelled = true
GcCleanup ==
  /\ \E i \in DOMAIN gcRuns :
       /\ ~gcRuns[i].cancelled
       /\ gcRuns' = [gcRuns EXCEPT ![i].cancelled = TRUE]
  /\ UNCHANGED <<gltfCache, gcFetches>>
  /\ GcOther("gcCleanup")

GcFetchResponse ==
  /\ \E i \in DOMAIN gcRuns, outcome \in {"reject", "notOk", "ok"} :
       /\ gcRuns[i].pc = "fetch"
       /\ SetCache(i, GcAfterFetch(GcState(gcRuns[i], gltfCache), outcome))
  /\ UNCHANGED gcFetches
  /\ GcOther("gcFetch")

GcBody ==
  /\ \E i \in DOMAIN gcRuns, outcome \in {"reject", "corrupt", "ok"} :
       /\ gcRuns[i].pc = "body"
       /\ SetCache(i, GcAfterBody(GcState(gcRuns[i], gltfCache), outcome))
  /\ UNCHANGED gcFetches
  /\ GcOther("gcBody")

GcLoaded ==
  /\ \E i \in DOMAIN gcRuns, outcome \in {"error", "ok"} :
       /\ gcRuns[i].pc = "load"
       /\ SetCache(i, GcAfterLoad(GcState(gcRuns[i], gltfCache), outcome))
  /\ UNCHANGED gcFetches
  /\ GcOther("gcLoaded")

-----------------------------------------------------------------------------
(* CameraRig (src/src/components/CameraRig.js; Rig of App.js is the same     *)
(* code) driven by setCameraPose events, and a camera queue on its own.      *)
(* tau is in ms, smoothing factors are in 1/10000.                           *)

\* most frames rendered by useFrame
MaxRigFrames == 1

\* CAMERA_SMOOTH_DEFAULT = 1.2, in ms
CAMERA_SMOOTH_DEFAULT == 1200

\* the rig after mount: the camera at its starting pose (CAMERAS.idle), the
\* desired pose copied from it, the OrbitControls attached
NewRig ==
  [controls |-> TRUE,
   position |-> IdlePose.position, target |-> IdlePose.target,
   desiredPos |-> IdlePose.position, desiredTarget |-> IdlePose.target,
   tau |-> CAMERA_SMOOTH_DEFAULT]

\* what an event carries as position or target when that is no array
NoArray == <<"null">>

\* the duration of an event that carries none
NoDuration == 0 - 1

\* a variant of onSetPose that moves the camera on every event
onSetPoseSnapping(r, e) ==
  IF ~r.controls \/ e.position = NoArray \/ e.target = NoArray THEN r
  ELSE [r EXCEPT !.position = e.position, !.target = e.target,
                 !.desiredPos = e.position, !.desiredTarget = e.target]

\* onSetPose(e); the duration defaults to 3.0
onSetPose(r, e) ==
  IF ~r.controls THEN r
  ELSE IF e.position = NoArray \/ e.target = NoArray THEN r
  ELSE IF e.immediate
  THEN [r EXCEPT !.position = e.position, !.target = e.target,
                 !.desiredPos = e.position, !.desiredTarget = e.target]
  ELSE [r EXCEPT !.tau = Max2(200, ((IF e.duration = NoDuration THEN 3000
                                     ELSE e.duration) * 10) \div 25),
                 !.desiredPos = e.position, !.desiredTarget = e.target]

\* the setCameraPose listener applied to the events dispatched, in order
RECURSIVE RigListenAll(_, _)
RigListenAll(r, evs) ==
  IF evs = <<>> THEN r
  ELSE RigListenAll(IF Head(evs).type = "setCameraPose"
                    THEN onSetPose(r, Head(evs)) ELSE r,
                    Tail(evs))

\* 1 - Math.exp(-dt / tau) in 1/10000, by the series x - x^2/2 + x^3/6
\* (x = dt / tau is at most 0.165: dt <= 33 ms, tau >= 200 ms)
BaseFactor(dt, tau) ==
  LET x == (dt * 10000) \div tau
  IN x - (x * x) \div 20000 + (((x * x) \div 10000) * x) \div 60000

\* v.lerp(d, f): one coordinate
LerpCoord(v, d, f) == v + ((d - v) * f) \div 10000

Lerp(v, d, f) == << LerpCoord(v[1], d[1], f), LerpCoord(v[2], d[2], f),
                    LerpCoord(v[3], d[3], f) >>

\* useFrame((_, dt) => ...), dt in ms
RigFrameStep(r, dt) ==
  IF ~r.controls THEN r
  ELSE LET clampedDt == Min2(33, Max2(1, dt))
           baseFactor == BaseFactor(clampedDt, r.tau)
           far == \/ Dist2(r.position, r.desiredPos) > 100 * 100
                  \/ Dist2(r.target, r.desiredTarget) > 100 * 100
           adaptiveFactor == IF far THEN baseFactor ELSE baseFactor \div 2
           smoothingFactor == Min2(adaptiveFactor, 1500)
       IN [r EXCEPT !.position = Lerp(@, r.desiredPos, smoothingFactor),
                    !.target = Lerp(@, r.desiredTarget, smoothingFactor)]

\* the poses queued: the idle pose, a pose exactly 5 mm from it, a pose
\* 3 mm + 3 mm from it, and the pose of section 1
RigPoses ==
  { IdlePose,
    Pose(3003, 1604, 3400, 0, 500, 0),
    Pose(3003, 1600, 3400, 0, 503, 0),
    Pose(3200, 1700, 0 - 3600, 0, 500, 0) }

\* the base durations queued, in ms (below and above CAM_MIN_DUR)
RigDurations == {400, 3000}

\* the setCameraPose events the rig receives: as the queue dispatches them,
\* and malformed ones or ones without a duration from other code
RigEvents ==
  { [type |-> "setCameraPose", position |-> pos, target |-> tar,
     duration |-> d, immediate |-> imm] :
      pos \in {NoArray, <<3200, 1700, 0 - 3600>>},
      tar \in {NoArray, <<0, 0, 0>>},
      d \in {NoDuration, 100, 4000}, imm \in BOOLEAN }

\* frame times handed to useFrame, in ms
RigFrameTimes == {50}

\* no queue() call yet, or none since the last reset; `flushed` tells that
\* the calls counted were answered by a flush
NoCalls == [calls |-> 0, first |-> Null, last |-> Null, flushed |-> FALSE]

\* the record of the queue() calls after one more call
CallsAfter(q, call) ==
  IF q.flushed \/ q.calls = 0
  THEN [calls |-> 1, first |-> call, last |-> call, flushed |-> FALSE]
  ELSE [q EXCEPT !.calls = Min2(2, @ + 1), !.last = call]

InitRig ==
  /\ rig = NewRig
  /\ rigQ = NewCameraQueue
  /\ rigRaf = <<>>
  /\ rigFrames = 0
  /\ rigFlushed = Null
  /\ rigQueued = NoCalls

\* the queue state as the context its operations work on
RigCtx == [cam |-> rigQ, raf |-> rigRaf, ev |-> <<>>]

\* commit a context of the queue
SetRigCtx(c) ==
  /\ rigQ' = c.cam
  /\ rigRaf' = c.raf
  /\ emitted' = c.ev

\* the frame of every action of the queue and the rig
RigOther(name) ==
  /\ op' = name
  /\ UNCHANGED <<sceneVars, orchVars, histVars, fbVars, gcVars, uiVars>>

\* cam.queue(pose, { baseDuration, immediate })
RigQueue ==
  /\ \E pose \in RigPoses, d \in RigDurations, imm \in BOOLEAN :
       /\ SetRigCtx(CamQueue(RigCtx, pose, d, imm))
       /\ rigQueued' = CallsAfter(rigQueued,
                                  [pose |-> pose, baseDuration |-> d,
                                   immediate |-> imm])
  /\ rigFlushed' = Null
  /\ UNCHANGED <<rig, rigFrames>>
  /\ RigOther("rigQueue")

\* cam.reset()
RigReset ==
  /\ SetRigCtx(CamReset(RigCtx))
  /\ rigFlushed' = Null
  /\ rigQueued' = NoCalls
  /\ UNCHANGED <<rig, rigFrames>>
  /\ RigOther("rigReset")

\* the browser runs the flush callback of the queue
RigFlush ==
  /\ rigRaf # <<>>
  /\ SetRigCtx(CamFlush([RigCtx EXCEPT !.raf = <<>>]))
  /\ rigFlushed' = rigQ.pending
  /\ rigQueued' = [rigQueued EXCEPT !.flushed = TRUE]
  /\ UNCHANGED <<rig, rigFrames>>
  /\ RigOther("rigFlush")

\* a setCameraPose event reaches the listener of the rig
RigEvent ==
  /\ \E e \in RigEvents :
       /\ rig' = RigListenAll(rig, <<e>>)
       /\ emitted' = <<e>>
  /\ UNCHANGED <<rigQ, rigRaf, rigFrames, rigFlushed, rigQueued>>
  /\ RigOther("rigEvent")

\* the OrbitControls are detached (controls.current = null) or attached again
RigControls ==
  /\ rig' = [rig EXCEPT !.controls = ~@]
  /\ emitted' = <<>>
  /\ UNCHANGED <<rigQ, rigRaf, rigFrames, rigFlushed, rigQueued>>
  /\ RigOther("rigControls")

\* a frame is rendered: useFrame eases the camera toward the desired pose
RigFrame ==
  /\ rigFrames < MaxRigFrames
  /\ rigFrames' = rigFrames + 1
  /\ \E dt \in RigFrameTimes : rig' = RigFrameStep(rig, dt)
  /\ emitted' = <<>>
  /\ UNCHANGED <<rigQ, rigRaf, rigFlushed, rigQueued>>
  /\ RigOther("rigFrame")



-----------------------------------------------------------------------------
(* animationsBridge (src/src/utils/animationsBridge.js; the same code is     *)
(* inlined in src/src/App.js).  `listeners` is a JavaScript Set: it keeps    *)
(* insertion order and holds a value at most once, so it is a sequence       *)
(* without repetitions.  The listeners of the program (useAnimationAPI,      *)
(* AnnotationSystem, WeightLayer) only store what they are handed; here a    *)
(* listener records the payloads it was called with.                         *)

\* the functions that components subscribe, and the payloads published
BridgeFns == {"f1", "f2", "f3"}
BridgePayloads == {"modelA", "modelB"}

\* most publish calls
MaxPublish == 2

\* let listeners = new Set(); no listener was called yet.  live is the set
\* of functions subscribed and not unsubscribed since, kept beside the Set
\* to state what the Set should hold; handed holds the functions for which
\* subscribe has returned an unsubscribe function; arg is the argument of
\* the last call
NewBridge ==
  [listeners |-> <<>>, received |-> [f \in BridgeFns |-> <<>>],
   published |-> 0, live |-> {}, handed |-> {}, arg |-> "none"]

\* a variant of SetAdd that keeps repetitions
SetAddAgain(seq, x) == Append(seq, x)

\* Set.prototype.add
SetAdd(seq, x) == IF x \in Range(seq) THEN seq ELSE Append(seq, x)

\* Set.prototype.delete
SetDelete(seq, x) == SelectSeq(seq, LAMBDA y : y # x)

\* for (const fn of listeners) fn(payload)
RECURSIVE CallEach(_, _, _)
CallEach(fns, payload, received) ==
  IF fns = <<>> THEN received
  ELSE CallEach(Tail(fns), payload,
                [received EXCEPT ![Head(fns)] = Append(@, payload)])

\* publish(payload)
publish(b, payload) ==
  [b EXCEPT !.received = CallEach(b.listeners, payload, @),
            !.published = @ + 1, !.arg = payload]

\* subscribe(fn): listeners.add(fn)
subscribe(b, fn) ==
  [b EXCEPT !.listeners = SetAdd(@, fn), !.live = @ \cup {fn},
            !.handed = @ \cup {fn}, !.arg = fn]

\* the function returned by subscribe(fn): listeners.delete(fn)
unsubscribe(b, fn) ==
  [b EXCEPT !.listeners = SetDelete(@, fn), !.live = @ \ {fn}, !.arg = fn]

InitBridge == bridge = NewBridge

\* the frame of every action of the bridge
BridgeOther(name) ==
  /\ op' = name /\ emitted' = <<>>
  /\ UNCHANGED <<sceneVars, orchVars, histVars, fbVars, gcVars, rigVars>>
  /\ UNCHANGED uiRestOfBridge

\* SceneContent publishes the actions and the group of the loaded model
BridgePublish ==
  /\ bridge.published < MaxPublish
  /\ \E payload \in BridgePayloads : bridge' = publish(bridge, payload)
  /\ BridgeOther("publish")

\* an effect of a component subscribes its listener; a component that
\* re-runs its effect subscribes the same or a new function
BridgeSubscribe ==
  /\ \E fn \in BridgeFns : bridge' = subscribe(bridge, fn)
  /\ BridgeOther("subscribe")

\* an effect cleanup calls a function subscribe returned for fn (a second
\* call, or the call of an older one, finds fn gone and deletes nothing)
BridgeUnsubscribe ==
  /\ \E fn \in BridgeFns :
       /\ fn \in bridge.handed
       /\ bridge' = unsubscribe(bridge, fn)
  /\ BridgeOther("unsubscribe")

-----------------------------------------------------------------------------
(* progressFor called with any element and viewport                          *)

\* rectangles explored: tops from well above to well below the viewport, in
\* steps that hit the edges exactly; heights 0 and 1, and a section shorter
\* and one taller than the viewport
RectTops == { 10 * k - 150 : k \in 0..40 } \cup {0 - 1, 1, 99, 101}
RectHeights == {0, 1, 50, 120}
Elements == {NoElement} \cup { Rect(t, h) : t \in RectTops, h \in RectHeights }

\* window.innerHeight (0 when the window has no layout yet) and
\* document.documentElement.clientHeight
InnerHeights == {0, InnerHeight}
ClientHeights == {0, 80}

\* nothing measured yet
Unmeasured == [missing |-> TRUE, called |-> FALSE]

InitMeasure == measured = Unmeasured

\* one call of progressFor
Measure ==
  /\ \E el \in Elements, ih \in InnerHeights, ch \in ClientHeights :
       measured' = [called |-> TRUE, el |-> el, innerHeight |-> ih,
                    clientHeight |-> ch, p |-> progressForEl(el, ih, ch)]
  /\ op' = "progressFor" /\ emitted' = <<>>
  /\ UNCHANGED <<sceneVars, orchVars, histVars, fbVars, gcVars, rigVars>>
  /\ UNCHANGED uiRestOfMeasure

-----------------------------------------------------------------------------
(* The gzip detection of loadGzipGLTF (src/src/hooks/useGzipGLTF.js): from   *)
(* the fetched bytes to the blob handed to the GLTF loader.  A payload is a  *)
(* sequence of bytes over a small alphabet.                                  *)

\* the magic bytes 0x1f 0x8b
GZIP_ID1 == 31
GZIP_ID2 == 139

\* bytes explored: the two magic bytes, 'g' (a GLB starts with "glTF") and 0
Bytes == {GZIP_ID1, GZIP_ID2, 103, 0}

\* longest payload explored
MaxPayload == 4

Payloads == UNION { [1..n -> Bytes] : n \in 0..MaxPayload }

Reverse(s) == [i \in DOMAIN s |-> s[Len(s) + 1 - i]]

\* pako.inflate, on a stand-in for the gzip format: a stream is the two
\* magic bytes, the data back to front, and a trailer repeating the first
\* byte of the data (0 for no data).  Any other input makes inflate throw.
InflateBody(bytes) == SubSeq(bytes, 3, Len(bytes) - 1)
InflateOk(bytes) ==
  /\ Len(bytes) >= 3
  /\ bytes[1] = GZIP_ID1 /\ bytes[2] = GZIP_ID2
  /\ bytes[Len(bytes)] = (IF InflateBody(bytes) = <<>> THEN 0
                          ELSE InflateBody(bytes)[Len(InflateBody(bytes))])
Inflate(bytes) == Reverse(InflateBody(bytes))

\* a variant of IsGzipped that looks at the first byte only
IsGzippedFirstByte(bytes) == Len(bytes) >= 1 /\ bytes[1] = GZIP_ID1

\* const isGzipped = view[0] === 0x1f && view[1] === 0x8b (an index past
\* the end of the view reads undefined)
IsGzipped(bytes) ==
  /\ Len(bytes) >= 1 /\ bytes[1] = GZIP_ID1
  /\ Len(bytes) >= 2 /\ bytes[2] = GZIP_ID2

\* from compressedData to the blob: inflated says whether pako.inflate was
\* called, threw whether it threw (the catch block takes over, no blob)
DecodePayload(bytes) ==
  IF IsGzipped(bytes)
  THEN IF InflateOk(bytes)
       THEN [called |-> TRUE, bytes |-> bytes, inflated |-> TRUE,
             threw |-> FALSE, hasBlob |-> TRUE, blob |-> Inflate(bytes)]
       ELSE [called |-> TRUE, bytes |-> bytes, inflated |-> TRUE,
             threw |-> TRUE, hasBlob |-> FALSE, blob |-> <<>>]
  ELSE [called |-> TRUE, bytes |-> bytes, inflated |-> FALSE,
        threw |-> FALSE, hasBlob |-> TRUE, blob |-> bytes]

InitDecode ==
  decoded = [called |-> FALSE, bytes |-> <<>>, inflated |-> FALSE,
             threw |-> FALSE, hasBlob |-> FALSE, blob |-> <<>>]

\* response.arrayBuffer() has delivered a payload
Decode ==
  /\ \E bytes \in Payloads : decoded' = DecodePayload(bytes)
  /\ op' = "decode" /\ emitted' = <<>>
  /\ UNCHANGED <<sceneVars, orchVars, histVars, fbVars, gcVars, rigVars>>
  /\ UNCHANGED uiRestOfDecode

-----------------------------------------------------------------------------
(* WeightLayer (src/src/components/WeightLayer.js; WeightLayerPreloaded of   *)
(* src/src/App.js is the same code).  The refs are written by listeners and  *)
(* by useFrame, which schedule no render; only setIsVisible with a new       *)
(* value, or a render of the parent, renders the component again.            *)

\* no sectionChange event was received yet
NoEvent == 0 - 2

\* sections a sectionChange event may carry
WeightSections == {0 - 1, 0, 1, 3}

\* progress of the drop added by one frame, in hundredths (delta * 0.8)
WeightFrameSteps == {50}

\* the component after its first render: groupRef is null and readyRef is
\* false, so it rendered null (no group, no mesh for weightRef)
NewWeight ==
  [group |-> FALSE,      \* groupRef.current is set
   ready |-> FALSE,      \* readyRef.current
   isVisible |-> FALSE,  \* the state of useState(false)
   dirty |-> FALSE,      \* a render is scheduled by setIsVisible
   rendered |-> "null",  \* what the last render returned: "null" or "group"
   visible |-> FALSE,    \* the visible prop of the group as rendered
   last |-> NoEvent,     \* section of the last sectionChange event
   dropping |-> FALSE, t |-> 0]

\* the listener passed to animationsBridge.subscribe
WeightOnPublish(w) == [w EXCEPT !.group = TRUE]

\* onSectionChange: setIsVisible(section === 0); React schedules a render
\* when the value differs from the state
WeightOnSectionChange(w, section) ==
  LET v == [w EXCEPT !.last = section,
                     !.dirty = @ \/ ((section = 0) # w.isVisible),
                     !.isVisible = (section = 0)]
  IN IF section # 0 THEN [v EXCEPT !.dropping = FALSE, !.t = 0] ELSE v

\* onDrop
WeightOnDrop(w) ==
  IF ~w.ready THEN w ELSE [w EXCEPT !.t = 0, !.dropping = TRUE]

\* the two useFrame callbacks: the one-time initialisation, then the drop
WeightOnFrame(w, step) ==
  LET Setup(x) == IF x.ready \/ ~x.group THEN x ELSE [x EXCEPT !.ready = TRUE]
      Fall(x) ==
        IF ~x.ready \/ x.rendered # "group" \/ ~x.dropping THEN x
        ELSE [x EXCEPT !.t = Min2(One, @ + step),
                       !.dropping = Min2(One, x.t + step) < One]
  IN Fall(Setup(w))

\* the render: if (!readyRef.current && !groupRef.current) return null;
\* return <group visible={isVisible}>...
WeightRenderOutput(w) ==
  IF ~w.ready /\ ~w.group
  THEN [w EXCEPT !.dirty = FALSE, !.rendered = "null", !.visible = FALSE]
  ELSE [w EXCEPT !.dirty = FALSE, !.rendered = "group", !.visible = w.isVisible]

InitWeight == weight = NewWeight

\* the frame of every action of the component
WeightOther(name) ==
  /\ op' = name /\ emitted' = <<>>
  /\ UNCHANGED <<sceneVars, orchVars, histVars, fbVars, gcVars, rigVars>>
  /\ UNCHANGED uiRestOfWeight

\* SceneContent publishes the group of the loaded model
WeightPublish ==
  /\ ~weight.group
  /\ weight' = WeightOnPublish(weight)
  /\ WeightOther("weightPublish")

WeightSectionChange ==
  /\ \E section \in WeightSections :
       weight' = WeightOnSectionChange(weight, section)
  /\ WeightOther("weightSection")

\* a triggerWeightDrop event
WeightDrop ==
  /\ weight' = WeightOnDrop(weight)
  /\ WeightOther("weightDrop")

WeightFrame ==
  /\ \E step \in WeightFrameSteps : weight' = WeightOnFrame(weight, step)
  /\ WeightOther("weightFrame")

\* React renders the component after setIsVisible changed its state
WeightRender ==
  /\ weight.dirty
  /\ weight' = WeightRenderOutput(weight)
  /\ WeightOther("weightRender")

\* the parent renders again, and the component with it
WeightParentRender ==
  /\ weight' = WeightRenderOutput(weight)
  /\ WeightOther("weightParentRender")

-----------------------------------------------------------------------------
(* AnnotationSystem and AnnotationOverlays (src/src/components; App.js has   *)
(* inline copies of the same code with other target tables).                *)
(* AnnotationSystem keeps the annotations of the section in React state and *)
(* dispatches them every frame; AnnotationOverlays keeps what it received.  *)

\* annotationTargets: the object each section points at
annotationTargets(section) ==
  CASE section = 1 -> <<"Plane009">>
    [] section = 2 -> <<"Point">>
    [] section = 3 -> <<"Plane005">>
    [] section = 4 -> <<"Plane008">>
    [] section = 5 -> <<"Plane015">>
    [] section = 6 -> <<"Plane003">>
    [] section = 7 -> <<"Plane008">>
    [] OTHER -> <<>>

\* sections a sectionChange event may carry
AnnotSections == {0 - 1, 0, 1, 4, 7, 8}

\* the named objects of the published model: none of the targets, the
\* target of section 1 only, or all of them
AnnotModels ==
  { {}, {"Plane009"},
    {"Plane009", "Point", "Plane005", "Plane008", "Plane015", "Plane003"} }

\* the group is not known
NoGroup == [known |-> FALSE, names |-> {}]

Digit(n) == <<"0", "1", "2", "3", "4", "5", "6", "7", "8", "9">>[n + 1]

\* `${section}-${index}`
AnnotationId(section, index) == <<Digit(section), "-", Digit(index)>>

\* targets.map(...).filter(Boolean): one annotation per target found
RECURSIVE FoundAnnotations(_, _, _, _)
FoundAnnotations(section, targets, index, names) ==
  IF index >= Len(targets) THEN <<>>
  ELSE (IF targets[index + 1] \in names
        THEN <<[id |-> AnnotationId(section, index),
                objectName |-> targets[index + 1], projected |-> FALSE]>>
        ELSE <<>>)
       \o FoundAnnotations(section, targets, index + 1, names)

\* both components after their first render
NewAnnot ==
  [group |-> NoGroup,          \* groupRef.current of AnnotationSystem
   annotations |-> <<>>,       \* state of AnnotationSystem
   frameSees |-> <<>>,         \* the state as of its last render (useFrame)
   sysDirty |-> FALSE,         \* a render of AnnotationSystem is scheduled
   ovAnnotations |-> <<>>,     \* state of AnnotationOverlays
   currentSection |-> 0,       \* state of AnnotationOverlays
   ovDirty |-> FALSE,          \* a render of AnnotationOverlays is scheduled
   rendered |-> [isNull |-> FALSE, list |-> <<>>],
   last |-> NoEvent,           \* section of the last sectionChange event
   stage |-> "idle"]           \* since that event: "changed", "rendered",
                               \* "framed"

\* the listener AnnotationSystem passes to animationsBridge.subscribe
AnnotOnPublish(a, g) == [a EXCEPT !.group = g]

\* onSectionChange of AnnotationSystem: setAnnotations with a new array
SystemOnSectionChange(a, section) ==
  LET targets == annotationTargets(section)
  IN [a EXCEPT !.annotations =
                  IF Len(targets) > 0 /\ a.group.known
                  THEN FoundAnnotations(section, targets, 0, a.group.names)
                  ELSE <<>>,
               !.sysDirty = TRUE]

\* onSectionChange of AnnotationOverlays: setCurrentSection(section)
OverlayOnSectionChange(a, section) ==
  [a EXCEPT !.ovDirty = @ \/ (section # a.currentSection),
            !.currentSection = section]

\* onUpdateAnnotations of AnnotationOverlays: setAnnotations(newAnnotations)
OverlayOnUpdateAnnotations(a, list) ==
  [a EXCEPT !.ovAnnotations = list, !.ovDirty = TRUE]

\* the useFrame callback of AnnotationSystem
SystemOnFrame(a) ==
  IF Len(a.frameSees) > 0
  THEN OverlayOnUpdateAnnotations(
         a, [k \in DOMAIN a.frameSees |->
               [a.frameSees[k] EXCEPT !.projected = TRUE]])
  ELSE a

\* the render without the test of the section
OverlayRenderAlways(a) ==
  [a EXCEPT !.ovDirty = FALSE,
            !.rendered = [isNull |-> FALSE, list |-> a.ovAnnotations]]

\* the render of AnnotationOverlays: null in section 7
OverlayRender(a) ==
  [a EXCEPT !.ovDirty = FALSE,
            !.rendered = IF a.currentSection = 7
                         THEN [isNull |-> TRUE, list |-> <<>>]
                         ELSE [isNull |-> FALSE, list |-> a.ovAnnotations]]

InitAnnot == annot = NewAnnot

\* the frame of every action of the two components
AnnotOther(name) ==
  /\ op' = name /\ emitted' = <<>>
  /\ UNCHANGED <<sceneVars, orchVars, histVars, fbVars, gcVars, rigVars>>
  /\ UNCHANGED uiRestOfAnnot

\* SceneContent publishes the group of the loaded model
AnnotPublish ==
  /\ ~annot.group.known
  /\ \E names \in AnnotModels :
       annot' = AnnotOnPublish(annot, [known |-> TRUE, names |-> names])
  /\ AnnotOther("annotPublish")

\* a sectionChange event reaches the listeners of both components
AnnotSectionChange ==
  /\ \E section \in AnnotSections :
       annot' = [OverlayOnSectionChange(SystemOnSectionChange(annot, section),
                                        section)
                   EXCEPT !.last = section, !.stage = "changed"]
  /\ AnnotOther("annotSection")

\* React renders AnnotationSystem: useFrame now sees the new state
AnnotSystemRender ==
  /\ annot.sysDirty
  /\ annot' = [annot EXCEPT !.sysDirty = FALSE,
                            !.frameSees = annot.annotations,
                            !.stage = IF @ = "changed" THEN "rendered" ELSE @]
  /\ AnnotOther("annotSystemRender")

\* a frame is rendered
AnnotFrame ==
  /\ annot' = [SystemOnFrame(annot)
                 EXCEPT !.stage = IF @ = "rendered" THEN "framed" ELSE @]
  /\ AnnotOther("annotFrame")

\* React renders AnnotationOverlays
AnnotOverlayRender ==
  /\ annot.ovDirty
  /\ annot' = OverlayRender(annot)
  /\ AnnotOther("annotOverlayRender")

-----------------------------------------------------------------------------
(* Initial state of the components outside the scroll orchestration         *)

InitUi == InitBridge /\ InitMeasure /\ InitDecode /\ InitWeight /\ InitAnnot

InitLib == InitFallback /\ InitCache /\ InitRig /\ InitUi

-----------------------------------------------------------------------------
(* SceneContent alone, driven by arbitrary window events                     *)

\* sections an event may carry: none (-1 / 0), the special sections 3 and 5,
\* and an ordinary one
SceneSections == {-1, 3, 5, 6}

\* frame deltas handed to useFrame, in seconds * One
FrameDeltas == {120}

\* the entry lists carried by the scrub events explored: fractions below 0 and
\* above 1, a name ("Ghost") that is no clip of any model, "Door" (a clip of
\* one model only), and the list onScroll sends near the end of section 1,
\* which names a clip twice
ScrubEntryLists ==
  { <<>>,
    <<Entry("Side", 40)>>,
    <<Entry("Side", One + 50)>>,
    <<Entry("Door", 0 - 50)>>,
    <<Entry("Ghost", 40), Entry("Side", 40)>>,
    <<Entry("Door", 40), Entry("Side", One + 50)>>,
    <<Entry("animation0", 2), Entry("Side", 2),
      Entry("animation0", 0), Entry("Side", 0)>> }

InitScene ==
  /\ clipNames \in ClipLists
  /\ actions = [n \in Range(clipNames) |-> NewAction]
  /\ scrubRef = EmptyScrub
  /\ sectionRef = -1
  /\ animationStartedRef = FALSE
  /\ mattressAnimationStartedRef = FALSE

InitObs == op = "init" /\ emitted = <<>>

ScrubEvent ==
  \E es \in ScrubEntryLists, ex \in BOOLEAN :
    /\ SetSceneRefs(onScrub(SceneRefs, es, ex))
    /\ op' = "scrubClips" /\ emitted' = <<>>
    /\ UNCHANGED libVars
    /\ UNCHANGED <<clipNames, actions, orchVars, histVars>>

ClearEvent ==
  /\ SetSceneRefs(onClear(SceneRefs))
  /\ op' = "clearScrub" /\ emitted' = <<>>
  /\ UNCHANGED libVars
  /\ UNCHANGED <<clipNames, actions, orchVars, histVars>>

SectionChangeEvent ==
  \E s \in SceneSections :
    /\ SetSceneRefs(onSectionChange(SceneRefs, s))
    /\ op' = "sectionChange" /\ emitted' = <<>>
    /\ UNCHANGED libVars
    /\ UNCHANGED <<clipNames, actions, orchVars, histVars>>

SceneFrame ==
  \E delta \in FrameDeltas :
    /\ SceneFrameStep(delta)
    /\ op' = "frame" /\ emitted' = <<>>
    /\ UNCHANGED libVars
    /\ framedSinceStart' = TRUE
    /\ UNCHANGED <<orchVars, scrollsSinceStart, posedSinceStart, dropsThisStay>>

vars == <<sceneVars, orchVars, histVars, obsVars, libVars>>

InitSceneOnly ==
  InitScene /\ InitOrch /\ variant = "modular" /\ InitHist /\ InitObs
  /\ InitLib

NextScene == ScrubEvent \/ ClearEvent \/ SectionChangeEvent \/ SceneFrame

SpecScene == InitSceneOnly /\ [][NextScene]_vars


-----------------------------------------------------------------------------
(* The running page: ScrollSections, SceneContent and the browser           *)

Init == InitSceneEmpty /\ InitOrch /\ InitHist /\ InitObs /\ InitLib

Next ==
  \/ ModelLoaded
  \/ ModularEffectRun
  \/ LegacyEffectRun
  \/ OnScroll
  \/ InitTimerFire
  \/ AnimationFrame
  \/ SceneFrame

Spec == Init /\ [][Next]_vars


-----------------------------------------------------------------------------
(* The loading hooks and the camera rig, each on its own                    *)

\* every component at rest: the state the hooks and the rig are studied from
InitAtRest ==
  /\ InitSceneEmpty /\ InitOrch /\ variant = "modular" /\ InitHist /\ InitObs
  /\ InitFallback /\ InitCache /\ InitRig /\ InitUi

NextFallback ==
  \/ FbEffect
  \/ FbCleanup
  \/ FbGzResponse
  \/ FbGzBody
  \/ FbRawResponse
  \/ FbRawBody
  \/ FbParsed

SpecFallback == InitAtRest /\ [][NextFallback]_vars

NextCache ==
  \/ GcEffect
  \/ GcCleanup
  \/ GcFetchResponse
  \/ GcBody
  \/ GcLoaded

SpecCache == InitAtRest /\ [][NextCache]_vars

NextCamQueue ==
  \/ RigQueue
  \/ RigReset
  \/ RigFlush

SpecCamQueue == InitAtRest /\ [][NextCamQueue]_vars

NextRig ==
  \/ RigEvent
  \/ RigControls
  \/ RigFrame

SpecRig == InitAtRest /\ [][NextRig]_vars

NextBridge ==
  \/ BridgePublish
  \/ BridgeSubscribe
  \/ BridgeUnsubscribe

SpecBridge == InitAtRest /\ [][NextBridge]_vars

SpecProgress == InitAtRest /\ [][Measure]_vars

SpecGzip == InitAtRest /\ [][Decode]_vars

NextWeight ==
  \/ WeightPublish
  \/ WeightSectionChange
  \/ WeightDrop
  \/ WeightFrame
  \/ WeightRender
  \/ WeightParentRender

SpecWeight == InitAtRest /\ [][NextWeight]_vars

NextAnnot ==
  \/ AnnotPublish
  \/ AnnotSectionChange
  \/ AnnotSystemRender
  \/ AnnotFrame
  \/ AnnotOverlayRender

SpecAnnot == InitAtRest /\ [][NextAnnot]_vars
-----------------------------------------------------------------------------
(* The timed runners of the config-driven page, frame by frame              *)

\* the clips the section 8 timeline names, in the order of the model
SECTION8_CLIPS == <<"animation0", "TentOPENCLOSE", "Door", "BackWindow", "Side">>

\* models holding any non-empty subset of those clips
Section8ClipLists ==
  { SelectSeq(SECTION8_CLIPS, LAMBDA n : n \in S) :
      S \in (SUBSET Range(SECTION8_CLIPS)) \ {{}} }

\* the page is scrolled into the middle of section 8 and stays there
Section8Positions ==
  { SectionTop("modular", 8) + OffsetFor(SectionHeight("modular", 8), 50) }

\* time between two animation frames, in ticks: a fast frame and a slow one
RunnerTickSteps == {1, 6}

Section8ModelLoaded == ModelLoadedWith(Section8ClipLists)

Section8Scroll == OnScrollAt(Section8Positions, MaxScrolls)

RunnerFrame == AnimationFrameWith(RunnerTickSteps)

NextSection8 ==
  \/ Section8ModelLoaded
  \/ ModularEffectRun
  \/ Section8Scroll
  \/ InitTimerFire
  \/ RunnerFrame

SpecSection8 == InitAtRest /\ [][NextSection8]_vars

\* most scroll events of a visit to section 7: enter, leave, enter again
MaxRunnerScrolls == 3

\* the top of the page, the middle of section 6 and the middle of section 7
Section7Positions ==
  {0} \cup { SectionTop("modular", i) + OffsetFor(SectionHeight("modular", i), 50) :
               i \in {6, 7} }

Section7Scroll == OnScrollAt(Section7Positions, MaxRunnerScrolls)

NextSection7 ==
  \/ ModelLoaded
  \/ ModularEffectRun
  \/ Section7Scroll
  \/ InitTimerFire
  \/ RunnerFrame

\* the browser keeps delivering animation frames while callbacks are
\* waiting: weak fairness of RunnerFrame, written out.  RunnerFrame is
\* enabled exactly when its guard holds (every frame changes the queue of
\* callbacks or a runner's clock), and its steps are the steps that leave
\* op = "raf"
FramesKeepComing ==
  \/ []<>(rafQueue = <<>> \/ effectPending)
  \/ []<><<op' = "raf">>_vars

SpecSection7 == InitAtRest /\ [][NextSection7]_vars /\ FramesKeepComing


-----------------------------------------------------------------------------
(* The weight drop of section 0 in App.js                                   *)

\* the top of the page, section 0 at 5%, 50% and 90%, the middle of section 1
Section0Positions ==
  {0} \cup { SectionTop("app", 0) + OffsetFor(SectionHeight("app", 0), pct) :
               pct \in {5, 50, 90} }
      \cup { SectionTop("app", 1) + OffsetFor(SectionHeight("app", 1), 50) }

\* the page of App.js at rest
InitApp ==
  /\ InitSceneEmpty /\ InitOrch /\ variant = "app" /\ InitHist /\ InitObs
  /\ InitFallback /\ InitCache /\ InitRig /\ InitUi

Section0Scroll == OnScrollAt(Section0Positions, MaxRunnerScrolls)

NextSection0 ==
  \/ ModelLoaded
  \/ LegacyEffectRun
  \/ Section0Scroll

SpecSection0 == InitApp /\ [][NextSection0]_vars
-----------------------------------------------------------------------------
(* C1: clip scrubbing                                                       *)

\* the clip names a scrub request names
NamesOf(entries) == { entries[i].name : i \in DOMAIN entries }

\* the fraction of the last entry of the request that names n
LastT(entries, n) ==
  LET idx == { i \in DOMAIN entries : entries[i].name = n }
  IN entries[CHOOSE i \in idx : \A j \in idx : j <= i].t

\* a frame was just rendered outside sections 3 and 5 with a non-empty
\* exclusive request (a frame changes neither the request nor the section)
ExclusiveScrubFramed ==
  /\ op = "frame"
  /\ sectionRef \notin {3, 5}
  /\ Len(scrubRef.entries) > 0
  /\ scrubRef.exclusive

\* C1 (as amended): after a frame rendered outside sections 3 and 5 with a
\* non-empty exclusive scrub request E, the enabled actions with weight 1 are
\* exactly the clips named by E that exist, every other action is disabled
\* with weight 0, and each applied action is paused at clamp(t,0,1) x duration
\* for the t of the LAST entry of E that names it; missing names are skipped.
C1_ScrubLastEntryWins ==
  ExclusiveScrubFramed =>
    \A n \in DOMAIN actions :
      IF n \in NamesOf(scrubRef.entries)
      THEN /\ actions[n].enabled /\ actions[n].weight = 1
           /\ actions[n].paused
           /\ actions[n].time =
                Max2(0, Min2(One, LastT(scrubRef.entries, n))) * ClipDuration(n)
      ELSE ~actions[n].enabled /\ actions[n].weight = 0

\* C1 as stated: every entry (name, t) of E whose clip exists leaves that
\* action paused at clamp(t,0,1) x duration
C1_ScrubEveryEntry ==
  ExclusiveScrubFramed =>
    \A i \in DOMAIN scrubRef.entries :
      LET e == scrubRef.entries[i] IN
      e.name \in DOMAIN actions =>
        /\ actions[e.name].enabled /\ actions[e.name].weight = 1
        /\ actions[e.name].paused
        /\ actions[e.name].time = Max2(0, Min2(One, e.t)) * ClipDuration(e.name)

\* a frame applied a request that names a missing clip and an existing clip
\* with a fraction above 1, which was clamped to the clip's end
C1_Witness ==
  /\ ExclusiveScrubFramed
  /\ \E i \in DOMAIN scrubRef.entries : scrubRef.entries[i].name \notin DOMAIN actions
  /\ \E i \in DOMAIN scrubRef.entries :
       LET e == scrubRef.entries[i] IN
       /\ e.name \in DOMAIN actions
       /\ e.t > One
       /\ actions[e.name].time = One * ClipDuration(e.name)
  /\ \E n \in DOMAIN actions : ~actions[n].enabled

-----------------------------------------------------------------------------
(* C2: sectionChange only when the section changed                          *)

\* the sections carried by the sectionChange events among evs, in order
RECURSIVE SectionsOf(_)
SectionsOf(evs) ==
  IF evs = <<>> THEN <<>>
  ELSE (IF Head(evs).type = "sectionChange" THEN <<Head(evs).section>> ELSE <<>>)
       \o SectionsOf(Tail(evs))

\* the step is a call of onScroll: by a scroll/resize event, or the kick of an
\* effect run (the first call of that run)
OnScrollCalled == op' = "onScroll" \/ (op' = "effect" /\ effectOn')

\* the section the previous call of this effect run computed; "none" for the
\* first call
PreviousSection ==
  IF op' = "effect" THEN NoSection(variant)
  ELSE CurrentSection(variant, lastProgress)

\* C2: in every version of ScrollSections, a call of onScroll dispatches a
\* sectionChange event exactly when the section it computes (the first section
\* whose progress is in (0,1], else "none") differs from the one computed by
\* the previous call of the same effect run, the event carries the new
\* section, and it never carries the section of the previous event.
C2_SectionChangeOnlyOnChange ==
  [][OnScrollCalled =>
       LET cur == CurrentSection(variant, lastProgress')
           prevEvent == IF op' = "effect" THEN NoSection(variant) ELSE lastSection
       IN /\ SectionsOf(emitted') =
               IF cur # PreviousSection THEN <<cur>> ELSE <<>>
          /\ \A i \in DOMAIN SectionsOf(emitted') :
               SectionsOf(emitted')[i] # prevEvent
          /\ lastSection' = IF SectionsOf(emitted') = <<>> THEN prevEvent ELSE cur]_vars

\* a scroll handled inside the section the previous call was in: no event
C2_Witness ==
  /\ op = "onScroll"
  /\ lastSection # NoSection(variant)
  /\ lastSection = CurrentSection(variant, lastProgress)
  /\ SectionsOf(emitted) = <<>>
  /\ Len(emitted) > 0

-----------------------------------------------------------------------------
(* C3: section 5 of the modular app                                         *)

\* C3 (as stated): in the modular app, while section 5 is current with
\* progress s, every rendered frame leaves Side paused at s x duration and
\* Door and BackWindow at time 0.
C3_Section5SideScrubbed ==
  ( /\ variant = "modular" /\ effectOn /\ op = "frame"
    /\ lastSection = 5 /\ sectionRef = 5
    /\ {"Side", "Door", "BackWindow"} \subseteq DOMAIN actions )
  => /\ actions["Side"].paused
     /\ actions["Side"].time = lastProgress[5] * ClipDuration("Side")
     /\ actions["Door"].time = 0
     /\ actions["BackWindow"].time = 0

-----------------------------------------------------------------------------
(* C4: section 6 keeps Side open                                            *)

\* the scrubClips events among evs
ScrubEvents(evs) == SelectSeq(evs, LAMBDA e : e.type = "scrubClips")

\* C4: in the config-driven ScrollSections, the scrub requests onScroll sends
\* are non-exclusive while section 6 is current and exclusive in every other
\* section; and a frame of SceneContent that applies a non-exclusive request
\* leaves enabled, weight and time of every action the request does not name
\* unchanged.
C4_Section6NonExclusive ==
  [][ /\ (variant = "modular" /\ OnScrollCalled) =>
           \A i \in DOMAIN ScrubEvents(emitted') :
             ScrubEvents(emitted')[i].exclusive = (lastSection' # 6)
      /\ ( /\ op' = "frame" /\ sectionRef \notin {3, 5}
           /\ Len(scrubRef.entries) > 0 /\ ~scrubRef.exclusive ) =>
           \A n \in DOMAIN actions :
             n \notin NamesOf(scrubRef.entries) =>
               /\ actions'[n].enabled = actions[n].enabled
               /\ actions'[n].weight = actions[n].weight
               /\ actions'[n].time = actions[n].time ]_vars

\* in section 6 of the modular app a frame applied the non-exclusive request
\* while a clip it does not name was still enabled at a time past 0
C4_Witness ==
  /\ variant = "modular" /\ op = "frame" /\ lastSection = 6
  /\ Len(scrubRef.entries) > 0 /\ ~scrubRef.exclusive
  /\ \E n \in DOMAIN actions :
       /\ n \notin NamesOf(scrubRef.entries)
       /\ actions[n].enabled /\ actions[n].weight = 1 /\ actions[n].time > 0
  /\ \E n \in DOMAIN actions :
       n \in NamesOf(scrubRef.entries) /\ actions[n].time > 0

-----------------------------------------------------------------------------
(* C7: the tent starts open                                                 *)

\* the fraction ensureInitialOpenState requests
OpenFraction == IF variant = "modular" THEN 98 ELSE One

\* C7 (as stated): after the effect has started with the clip names known and
\* the page at the top, the next frame of SceneContent applies animation0 and
\* TentOPENCLOSE at the open fraction.
C7_TentStartsOpen ==
  [][ ( /\ op' = "frame" /\ ~framedSinceStart
        /\ effectOn /\ ~effectPending /\ Len(apiClipNames) > 0
        /\ scrollY = 0 /\ scrollsSinceStart = 0 )
      => \A n \in {"animation0", "TentOPENCLOSE"} \cap DOMAIN actions :
           /\ actions'[n].enabled /\ actions'[n].paused
           /\ actions'[n].time = OpenFraction * ClipDuration(n) ]_vars

-----------------------------------------------------------------------------
(* C8: baseline camera snap                                                 *)

\* the first setCameraPose event among evs
FirstPose(evs) ==
  evs[CHOOSE i \in DOMAIN evs :
        /\ evs[i].type = "setCameraPose"
        /\ \A j \in DOMAIN evs : evs[j].type = "setCameraPose" => i <= j]

\* C8 (as stated): the first setCameraPose event the camera queue dispatches
\* after the effect started carries immediate = true and the idle pose.
C8_FirstPoseImmediate ==
  [][ ( /\ variant \in {"modular", "legacy"}
        /\ op' = "raf" /\ effectOn /\ ~posedSinceStart /\ HasPose(emitted') )
      => /\ FirstPose(emitted').immediate
         /\ FirstPose(emitted').position = IdlePose.position
         /\ FirstPose(emitted').target = IdlePose.target ]_vars

-----------------------------------------------------------------------------
(* C5: fallback to the uncompressed asset                                   *)

\* what the network and pako answered made the gzipped attempt fail: the
\* request rejected or was not OK, or reading or inflating the body threw
GzAttemptFailed(r) ==
  r.gz \in {"reject", "notOk"} \/ r.gzBody \in {"reject", "corrupt"}

\* the uncompressed request failed
RawAttemptFailed(r) == r.raw \in {"reject", "notOk"} \/ r.rawBody = "reject"

\* parsing failed
ParseFailed(r) == r.parse \in {"error", "throw"}

\* url + ".gz" is requested first, and url after it exactly when the gzipped
\* attempt failed
FallbackOrder(r) ==
  /\ r.requests \in {<<GzipUrl>>, <<GzipUrl, PlainUrl>>}
  /\ (Len(r.requests) = 2) <=> GzAttemptFailed(r)

\* the run set the error exactly when the uncompressed request or the
\* parsing failed, and delivered the model otherwise
ErrorOrModel(r) ==
  /\ (r.result = "error") <=> (RawAttemptFailed(r) \/ ParseFailed(r))
  /\ (r.result = "model") <=> ~(RawAttemptFailed(r) \/ ParseFailed(r))

\* C5 (as amended): every run of the fallback useGzipGLTF requests url + ".gz"
\* first and requests url exactly when that request rejected, was not OK, or
\* its body could not be read or inflated; a run sets the error only if the
\* uncompressed request or the parsing failed; and a finished run whose effect
\* was not cleaned up has set the error in exactly those cases and delivered
\* the model otherwise.
C5_FallbackThenErrorUnlessCancelled ==
  /\ \A i \in DOMAIN fbRuns :
       /\ FallbackOrder(fbRuns[i])
       /\ fbRuns[i].result = "error" =>
            (RawAttemptFailed(fbRuns[i]) \/ ParseFailed(fbRuns[i]))
       /\ (fbRuns[i].pc = "done" /\ ~fbRuns[i].cancelled) => ErrorOrModel(fbRuns[i])
  /\ fbHook.error <=> \E i \in DOMAIN fbRuns : fbRuns[i].result = "error"
  /\ fbHook.gltfData <=> \E i \in DOMAIN fbRuns : fbRuns[i].result = "model"

\* C5 as stated: every finished run has set the error if the uncompressed
\* request or the parsing failed, and delivered the model otherwise
C5_FallbackThenError ==
  \A i \in DOMAIN fbRuns :
    /\ FallbackOrder(fbRuns[i])
    /\ fbRuns[i].pc = "done" => ErrorOrModel(fbRuns[i])

\* a run whose gzipped body could not be inflated fetched the uncompressed
\* url and delivered the model
C5_Witness ==
  \E i \in DOMAIN fbRuns :
    /\ fbRuns[i].pc = "done" /\ ~fbRuns[i].cancelled
    /\ fbRuns[i].gz = "ok" /\ fbRuns[i].gzBody = "corrupt"
    /\ fbRuns[i].requests = <<GzipUrl, PlainUrl>>
    /\ fbRuns[i].result = "model"
    /\ fbHook.gltfData /\ ~fbHook.error /\ ~fbHook.loading

-----------------------------------------------------------------------------
(* C6: the module-level cache                                               *)

\* C6 (as stated): whatever the mounts, unmounts and concurrent uses of the
\* caching useGzipGLTF with one url, the url is fetched at most once.
C6_FetchedAtMostOnce == gcFetches <= 1

-----------------------------------------------------------------------------
(* C9: pose handling of the camera rig                                      *)

\* the time constant a non-immediate event asks for, in ms:
\* max(0.2, duration / 2.5) with duration 3.0 by default
TauOf(e) ==
  IF e.duration = NoDuration THEN 1200
  ELSE IF e.duration <= 500 THEN 200
  ELSE (e.duration * 2) \div 5

-----------------------------------------------------------------------------
(* C10: camera de-jitter                                                    *)

\* sqrt(p2) + sqrt(t2) <= CAM_EPS for the squared distances p2 and t2 of
\* positions and targets: p2 + t2 + 2 sqrt(p2 t2) <= CAM_EPS^2
WithinEps(a, b) ==
  LET p2 == Dist2(a.position, b.position)
      t2 == Dist2(a.target, b.target)
      e2 == CAM_EPS * CAM_EPS
  IN /\ p2 + t2 <= e2
     /\ 4 * p2 * t2 <= (e2 - p2 - t2) * (e2 - p2 - t2)

\* the flush dispatched exactly the pending pose and remembered it
SentPending ==
  /\ Len(emitted') = 1
  /\ emitted'[1].type = "setCameraPose"
  /\ emitted'[1].position = rigQ.pending.pose.position
  /\ emitted'[1].target = rigQ.pending.pose.target
  /\ rigQ'.lastSent # Null
  /\ rigQ'.lastSent.position = rigQ.pending.pose.position
  /\ rigQ'.lastSent.target = rigQ.pending.pose.target

\* C10: a flush of the camera queue whose pending pose is at most CAM_EPS
\* (position distance plus target distance) from the last sent pose dispatches
\* nothing and leaves lastSent unchanged; a flush with no last sent pose
\* (the first after creation or after reset(), which clears it) always
\* dispatches the pending pose.
C10_DeJitter ==
  [][ /\ (op' = "rigFlush" /\ rigQ.pending # Null) =>
           /\ rigQ'.pending = Null
           /\ IF rigQ.lastSent = Null THEN SentPending
              ELSE IF WithinEps(rigQ.lastSent, rigQ.pending.pose)
              THEN emitted' = <<>> /\ rigQ'.lastSent = rigQ.lastSent
              ELSE SentPending
      /\ op' = "rigReset" => rigQ' = NewCameraQueue ]_vars

\* a flush found a pose pending that differs from the last sent pose by no
\* more than CAM_EPS, and dispatched nothing
C10_Witness ==
  /\ op = "rigFlush" /\ emitted = <<>>
  /\ rigFlushed # Null /\ rigQ.lastSent # Null
  /\ rigFlushed.pose # PoseOf(rigQ.lastSent)
  /\ rigQ.pending = Null

-----------------------------------------------------------------------------
(* C11: animationsBridge pub/sub.  publish(payload) calls every function     *)
(* that is subscribed at that moment (subscribed, and not unsubscribed       *)
(* since) exactly once with the payload and calls no other function; after   *)
(* the function returned by subscribe(fn) has run, fn is no listener, so no  *)
(* later publish reaches it; a function subscribed again while it is         *)
(* subscribed is still registered once.                                      *)

\* how often x occurs in seq
Count(seq, x) == Cardinality({i \in DOMAIN seq : seq[i] = x})

C11_PubSub ==
  [][ /\ op' = "publish" =>
           \A f \in BridgeFns :
             bridge'.received[f] =
               IF f \in bridge.live
               THEN Append(bridge.received[f], bridge'.arg)
               ELSE bridge.received[f]
      /\ op' = "unsubscribe" => Count(bridge'.listeners, bridge'.arg) = 0
      /\ op' = "subscribe" => Count(bridge'.listeners, bridge'.arg) = 1
    ]_vars

\* a function subscribed twice, a function unsubscribed, and a publish that
\* reached the one and not the other
C11_Witness ==
  /\ op = "publish"
  /\ \E f, g \in BridgeFns :
       /\ f \in bridge.live /\ g \in bridge.handed \ bridge.live
       /\ Len(bridge.received[f]) = 2 /\ Len(bridge.received[g]) = 1

-----------------------------------------------------------------------------
(* C12: section 8 Return/Close is timer-driven.  While section 8 stays       *)
(* current, the animation runner ends by itself, and the last scrub it       *)
(* sends (in the frame in which it stops) has every clip of the timeline     *)
(* that resolves in the model at its 'to' value.                             *)

\* the entries of the last scrubClips event among the events, <<>> if none
RECURSIVE LastScrubEntries(_)
LastScrubEntries(evs) ==
  IF evs = <<>> THEN <<>>
  ELSE IF evs[Len(evs)].type = "scrubClips" THEN evs[Len(evs)].entries
  ELSE LastScrubEntries(SubSeq(evs, 1, Len(evs) - 1))

\* the entries have every clip of the timeline at its 'to' value
AllAtTo(entries) ==
  \A k \in DOMAIN animationTimeline :
    \E i \in DOMAIN entries :
      /\ entries[i].name = animationTimeline[k].clip
      /\ entries[i].t = animationTimeline[k].to

\* the runner stops by itself in this animation frame, in section 8
Section8AnimStops ==
  /\ op' = "raf" /\ lastSection = 8
  /\ section8AnimRunner.running /\ ~section8AnimRunner'.running

C12_Section8AnimationCompletes ==
  [][Section8AnimStops => AllAtTo(LastScrubEntries(emitted'))]_vars

-----------------------------------------------------------------------------
(* C13: the section 7 flythrough.  A section change into 7 starts the        *)
(* runner; in an animation frame taken while the current section is not 7    *)
(* the runner queues no pose (no pose of FLY_POSES is left pending); while   *)
(* section 7 stays current the runner's segment index never decreases, the   *)
(* pose of its segment is the one queued, and the runner stops by itself.    *)

FlyPoseSet == { FLY_POSES[k].pose : k \in DOMAIN FLY_POSES }

\* the pose was queued: it is pending, or a flush has taken it since (sent
\* it, or dropped it as within CAM_EPS of the pose sent last)
PoseQueued(q, pose) ==
  \/ q.pending # Null /\ q.pending.pose = pose
  \/ q.lastSent # Null /\ ~DeltaExceedsEps(q.lastSent, pose)

FlythroughStartedOnEnter ==
  (op' = "onScroll" /\ lastSection # 7 /\ lastSection' = 7) =>
    /\ section7Runner'.running /\ section7Runner'.elapsed = 0
    /\ \E k \in DOMAIN rafQueue' : rafQueue'[k] = "step7"

FlythroughQuietOutside ==
  (op' = "raf" /\ lastSection # 7) =>
    /\ ~section7Runner'.running
    /\ camQ'.pending = Null \/ camQ'.pending.pose \notin FlyPoseSet

FlythroughInOrder ==
  (op' = "raf" /\ lastSection = 7 /\ section7Runner.running
     /\ section7Runner'.running) =>
    /\ section7Runner'.i >= section7Runner.i
    /\ PoseQueued(camQ', FLY_POSES[section7Runner'.i + 1].pose)

C13_Section7Flythrough ==
  /\ [][FlythroughStartedOnEnter /\ FlythroughQuietOutside
        /\ FlythroughInOrder]_vars
  /\ [](section7Runner.running => <>(~section7Runner.running))

\* section 7 was left and entered again, and the runner has reached the last
\* segment of the timeline
C13_Witness ==
  /\ lastSection = 7 /\ scrollsSinceStart = 3
  /\ section7Runner.running /\ section7Runner.i = Len(FLY_POSES) - 1

-----------------------------------------------------------------------------
(* C14: progressFor.  For every element (missing, or any rectangle) and      *)
(* viewport height the result is in [0,1]; it is 0 when the element is       *)
(* missing, entirely above the viewport (bottom <= 0) or entirely below it   *)
(* (top >= viewport height); otherwise it is -top / height clamped to        *)
(* [0,1], which is 0 while the top edge is at or below the top of the        *)
(* viewport.                                                                 *)

\* the viewport height of the call
ViewportOf(m) == IF m.innerHeight # 0 THEN m.innerHeight ELSE m.clientHeight

\* whether the element of the call is missing or out of the viewport
Offscreen(m) ==
  \/ m.el.missing
  \/ m.el.top + m.el.height <= 0
  \/ m.el.top >= ViewportOf(m)

\* -top / height clamped to [0,1], in hundredths, by cases (a visible
\* element of height 0 has its top below the top of the viewport)
ClampedFraction(top, height) ==
  IF top >= 0 THEN 0
  ELSE IF 0 - top >= height THEN One
  ELSE ((0 - top) * One) \div height

C14_ProgressFor ==
  measured.called =>
    /\ measured.p \in 0..One
    /\ Offscreen(measured) => measured.p = 0
    /\ ~Offscreen(measured) =>
         /\ measured.p = ClampedFraction(measured.el.top, measured.el.height)
         /\ measured.el.top >= 0 => measured.p = 0

\* a section partly scrolled past the top of the viewport: a progress
\* strictly between 0 and 1
C14_Witness ==
  /\ measured.called /\ ~Offscreen(measured)
  /\ measured.p > 0 /\ measured.p < One

-----------------------------------------------------------------------------
(* C15: gzip detection by magic bytes.  The payload is inflated if and only  *)
(* if it starts with the two bytes 0x1f 0x8b; any other payload reaches the  *)
(* loader's blob byte for byte unchanged.                                    *)

StartsWithMagic(bytes) == Len(bytes) >= 2 /\ SubSeq(bytes, 1, 2) = <<31, 139>>

C15_GzipMagicBytes ==
  decoded.called =>
    /\ decoded.inflated <=> StartsWithMagic(decoded.bytes)
    /\ ~StartsWithMagic(decoded.bytes) =>
         decoded.hasBlob /\ decoded.blob = decoded.bytes

\* a payload that starts with 0x1f but is not gzipped, passed on as it is
C15_Witness ==
  /\ decoded.called /\ Len(decoded.bytes) >= 2 /\ decoded.bytes[1] = 31
  /\ ~decoded.inflated /\ decoded.blob = decoded.bytes

-----------------------------------------------------------------------------
(* C16: the weight is only visible during section 0.  Once the model group   *)
(* has reached the component, a frame has initialised it and no render is    *)
(* waiting, the weight group is rendered with its visible flag true if and   *)
(* only if the last sectionChange event carried section 0 (and so not        *)
(* before any event).                                                        *)

WeightShown == weight.rendered = "group" /\ weight.visible

C16_IsVisibleFollowsSection ==
  /\ weight.isVisible <=> weight.last = 0
  /\ (WeightShown /\ ~weight.dirty) => weight.last = 0


\* C17: during one continuous stay in section 0 triggerWeightDrop is
\* dispatched at most once, and only by a call of onScroll that saw section-0
\* progress above 0.1; a call of onScroll in which section 0 is not active
\* re-arms the trigger, so that the next call above 0.1 dispatches it again.
DropOnlyAboveTenth ==
  (op' \in {"onScroll", "effect"} /\ DropCount(emitted') > 0)
    => lastProgress'[0] > 10

RearmedOutside ==
  /\ (op' \in {"onScroll", "effect"} /\ lastProgress'[0] = 0)
       => ~weightDroppedRef'
  /\ (op' = "onScroll" /\ lastProgress[0] = 0 /\ lastProgress'[0] > 10)
       => DropCount(emitted') = 1

C17_WeightDropOncePerStay ==
  /\ [](dropsThisStay <= 1)
  /\ [][DropOnlyAboveTenth /\ RearmedOutside]_vars

\* a second call of onScroll above 0.1 within the stay that dispatched the drop
C17_Witness ==
  /\ variant = "app" /\ op = "onScroll"
  /\ lastProgress[0] > 10 /\ dropsThisStay = 1
  /\ DropCount(emitted) = 0 /\ weightDroppedRef

\* C18: while the most recent sectionChange event carried section 7, every
\* render of AnnotationOverlays returns null and its committed output is
\* null once no render is pending, whatever updateAnnotations events arrived.
C18_HiddenInSection7 ==
  /\ []((annot.last = 7 /\ ~annot.ovDirty) => annot.rendered.isNull)
  /\ [][(op' = "annotOverlayRender" /\ annot.last = 7)
          => annot'.rendered.isNull]_vars

\* in section 7 an updateAnnotations event delivered a list and the render
\* that followed returned null
C18_Witness ==
  /\ annot.last = 7 /\ op = "annotOverlayRender"
  /\ Len(annot.ovAnnotations) > 0
  /\ annot.ovAnnotations[1].projected
  /\ annot.rendered.isNull

\* the id starts with the section
StartsWithSection(id, section) ==
  section \in 0..9 /\ Len(id) > 0 /\ id[1] = Digit(section)

\* no target of the section names an object of the known model
NoTargetFound(section, g) ==
  \A k \in DOMAIN annotationTargets(section) :
    annotationTargets(section)[k] \notin g.names

\* C19: after a sectionChange to section s, the render of AnnotationSystem
\* and the next frame, the list held by AnnotationOverlays has only
\* annotations whose id starts with s, and is empty when s has no targets,
\* no target object is found or the group is not known.
C19_AnnotationsFollowSection ==
  annot.stage = "framed" =>
    /\ \A k \in DOMAIN annot.ovAnnotations :
         StartsWithSection(annot.ovAnnotations[k].id, annot.last)
    /\ (\/ Len(annotationTargets(annot.last)) = 0
        \/ ~annot.group.known
        \/ NoTargetFound(annot.last, annot.group))
         => Len(annot.ovAnnotations) = 0

\* what does hold: the list AnnotationSystem itself keeps follows the
\* section, and a non-empty list reaches AnnotationOverlays with the frame
C19_SystemListFollowsSection ==
  /\ annot.last # NoEvent =>
       /\ \A k \in DOMAIN annot.annotations :
            StartsWithSection(annot.annotations[k].id, annot.last)
       /\ (\/ Len(annotationTargets(annot.last)) = 0
           \/ ~annot.group.known
           \/ NoTargetFound(annot.last, annot.group))
            => Len(annot.annotations) = 0
  /\ (annot.stage = "framed" /\ Len(annot.annotations) > 0)
       => /\ Len(annot.ovAnnotations) = Len(annot.annotations)
          /\ \A k \in DOMAIN annot.ovAnnotations :
               annot.ovAnnotations[k].id = annot.annotations[k].id

-----------------------------------------------------------------------------
(* C20: camera queue coalescing                                             *)

\* the flush callbacks of the queue the browser still has to run
OutstandingFlushes == Count(rigRaf, "flush")

\* at most one callback is outstanding, state.raf tells whether one is, and
\* a pending pose has one
OneFlushScheduled ==
  /\ OutstandingFlushes <= 1
  /\ rigQ.raf <=> (OutstandingFlushes = 1)
  /\ rigQ.pending # Null => (rigQ.raf /\ OutstandingFlushes = 1)

\* the event carries the pose and the options of the call
CarriesCall(e, call, lastSent) ==
  /\ e.type = "setCameraPose"
  /\ e.position = call.pose.position
  /\ e.target = call.pose.target
  /\ e.immediate = call.immediate
  /\ e.duration = IF call.immediate THEN 0
                  ELSE Max2(call.baseDuration, DurFromDelta(lastSent, call.pose))

\* C20: at most one animation-frame callback of the camera queue is
\* outstanding at any time; queue() and reset() dispatch nothing, and the
\* flush that follows any number of queue() calls dispatches at most one
\* setCameraPose event, which carries the pose and the options of the last
\* queue() call; a pending pose always has a scheduled flush.
C20_CameraQueueCoalesces ==
  /\ []OneFlushScheduled
  /\ [][ /\ op' \in {"rigQueue", "rigReset"} => emitted' = <<>>
         /\ op' = "rigFlush" =>
              /\ Len(emitted') <= 1
              /\ Len(emitted') = 1 =>
                   /\ rigQueued.calls > 0 /\ ~rigQueued.flushed
                   /\ CarriesCall(emitted'[1], rigQueued.last, rigQ.lastSent)
              /\ rigQ'.pending = Null /\ ~rigQ'.raf ]_vars

\* two or more queue() calls with different poses and options were made
\* before the flush, which dispatched one event with those of the last
C20_Witness ==
  /\ op = "rigFlush" /\ Len(emitted) = 1
  /\ rigQueued.flushed /\ rigQueued.calls = 2
  /\ rigQueued.first.pose # rigQueued.last.pose
  /\ rigQueued.first.immediate # rigQueued.last.immediate
  /\ emitted[1].position = rigQueued.last.pose.position
  /\ rigQ.pending = Null /\ rigRaf = <<>>

-----------------------------------------------------------------------------
(* C21: one step loop per timed runner                                      *)

\* the step chains of a runner that are alive: callbacks the browser still
\* has to run and that will go on, the runner being marked running
AliveChains(r, cb) == IF r.running THEN Count(rafQueue, cb) ELSE 0

\* C21: for each of the section 7 flythrough, the section 8 flythrough and
\* the section 8 animation runner, at most one requestAnimationFrame step
\* chain is alive at any time, for every interleaving of section changes and
\* animation frames.
C21_OneStepChainPerRunner ==
  /\ AliveChains(section7Runner, "step7") <= 1
  /\ AliveChains(section8Runner, "step8") <= 1
  /\ AliveChains(section8AnimRunner, "step8anim") <= 1
====
